---- MODULE Spec2Model ----
(***************************************************************************)
(* Session orchestration of the 5G connection-management simulator:        *)
(* SessionManager (PDU session lifecycle, address pool), PacketAnimator    *)
(* (token scheduler) and the topology store they read.                     *)
(*                                                                         *)
(* Heap objects (network functions) are modelled by id: nfObj[id] is the   *)
(* JavaScript object, dataStore.nfs the ids the store currently holds.  A  *)
(* lifecycle keeps the references it captured at validation, so an object  *)
(* stays readable and writable after its node has left the store.          *)
(***************************************************************************)
EXTENDS Integers, Sequences, FiniteSets, TLC

VARIABLES
    dataStore,        \* [nfs, connections, busConnections]: the topology store
                      \* (with the field buses where buses are added or removed)
    nfObj,            \* id -> the network-function object (type, status, config)
    sessions,         \* SessionManager.sessions: ueId -> session object
    procs,            \* suspended establish/release calls: ueId -> slot -> frame
                      \* (suspended deployCoreSequence calls: run -> frame)
    packetAnimator,   \* [packets, isRunning, animationFrameId, tracked, stale]
    logOut,           \* the records the last step appended to the log stream
    returned,         \* the call that returned in the last step, with its value
    incidents,        \* collaborator calls that have thrown, nodes deleted and
                      \* topology edits made so far
    started,          \* step sequences started so far
    pduPanel          \* the Connection Management panel: mode, session data,
                      \* the 13 step buttons

vars == <<dataStore, nfObj, sessions, procs, packetAnimator, logOut, returned,
          incidents, started, pduPanel>>

-----------------------------------------------------------------------------
(* Bounds of the model *)

\* suspended lifecycle calls at once, over all terminals
MaxProcs == 2
\* throws of a collaborator call (the log stream) and node deletions in one
\* behaviour
MaxIncidents == 1
\* animation frames a token needs per path segment at the default speed
\* (the source advances 0.012 of a segment per frame)
FramesPerSegment == 1
\* step sequences (establishments and releases) started in one behaviour
MaxStarts == 3
\* most addresses still unused in a pool that has been in service (see Init)
PoolHeadroom == 0
\* clicks on Deploy Core in one behaviour
MaxDeploys == 2
\* clicks on the Connection Management button and on Reset in one behaviour
MaxResets == 2
\* establishments and releases of one terminal started in one behaviour of
\* the overlapping lifecycles
MaxOverlapStarts == 5
\* allocations, recordings and clean-ups applied to one pool in one behaviour
MaxPoolOps == 4
\* waypoints of a token's path (calculatePath gives 2, 4 or 5)
MaxWaypoints == 5
\* progress units to one segment where tokens of several speeds are ticked
TickUnit == 4
\* largest speed of a token, in progress units per tick
MaxSpeed == 6
\* tokens live at once where tokens of several speeds are ticked
MaxTokens == 2
\* nested calls of areNFsConnected followed before the recursion is cut
MaxDepth == 6
\* calls of areNFsConnected made from outside in one behaviour
MaxCalls == 1
\* edits of the topology (links, bus attachments, addresses, deletions) made
\* in one behaviour of the editor specification
MaxEdits == 2

-----------------------------------------------------------------------------
(* Program constants *)

\* allocateUEIP: `tun0.nextAvailableIP || 2` and `while (nextIP <= 14)`
FirstHost == 2
LastHost == 14
\* calculatePath: `Math.abs(...) > 10`
BusSlideThreshold == 10

STATES == [IDLE |-> "IDLE", ESTABLISHING |-> "ESTABLISHING", ACTIVE |-> "ACTIVE",
           RELEASING |-> "RELEASING", RELEASED |-> "RELEASED"]

\* null of a string-valued field, of a number-valued field, of an object field
NullId == "null"
NullNum == 0
Null == <<>>

\* `10.0.0.${n}`
HostIP(n) == <<10, 0, 0, n>>
\* the literal '10.0.0.2' allocateUEIP returns when it has nothing to give
FallbackIP == <<10, 0, 0, 2>>
\* `upf.config.tun0Interface?.gatewayIP || '10.0.0.1'`
DefaultGatewayIP == <<10, 0, 0, 1>>

\* Math.floor(Math.random() * 255) + 1 and `gtp-${1000 + ...}`: opaque tokens
PduSessionIds == {7}
TunnelIds == {1000}

\* the 13 step buttons of the Connection Management panel
PDUSteps == 1..13
\* the panel as the page loads it: mode off, no session data, no step run
NoPanel ==
    [pduSessionMode |-> FALSE, pduSessionData |-> Null, pduCurrentStep |-> 0,
     disabled |-> PDUSteps \ {1}, active |-> {}, completed |-> {}]

-----------------------------------------------------------------------------
(* The deployed topology the lifecycles run on *)

UEIds == {"ue1", "ue2"}
NFIds == UEIds \cup {"gnb1", "amf1", "smf1", "upf1"}
BusIds == {"bus1", "bus2"}
\* the nodes the user deletes in the editor: a terminal, a control-plane
\* function and the gateway
Deletable == {"ue1", "amf1", "upf1"}

\* the service bus of the deployment and a second, vertical bus drawn in the editor
busObj ==
    [b \in BusIds |->
        IF b = "bus1" THEN [orientation |-> "horizontal", position |-> [x |-> 110, y |-> 152]]
        ELSE [orientation |-> "vertical", position |-> [x |-> 520, y |-> 200]]]

NoTun0 == Null
InitTun0(next) == <<[gatewayIP |-> <<10, 0, 0, 1>>, assignedIPs |-> {}, nextAvailableIP |-> next]>>

MkNF(type, ip, x, y, imsi, tun0) ==
    [type |-> type, status |-> "stable", ipAddress |-> ip, position |-> [x |-> x, y |-> y],
     subscriberImsi |-> imsi, pduSession |-> Null, tunInterface |-> Null,
     pduSessionState |-> NullId, cmState |-> NullId, tun0Interface |-> tun0]

InitNFs(next) ==
    [id \in NFIds |->
        CASE id = "ue1"  -> MkNF("UE",  <<192, 168, 1, 22>>, 33, 342, "001010000000101", NoTun0)
          [] id = "ue2"  -> MkNF("UE",  <<192, 168, 1, 23>>, 33, 420, "001010000000102", NoTun0)
          [] id = "gnb1" -> MkNF("gNB", <<192, 168, 1, 21>>, 182, 342, NullId, NoTun0)
          [] id = "amf1" -> MkNF("AMF", <<192, 168, 1, 11>>, 274, 222, NullId, NoTun0)
          [] id = "smf1" -> MkNF("SMF", <<192, 168, 1, 12>>, 395, 228, NullId, NoTun0)
          [] OTHER       -> MkNF("UPF", <<192, 168, 1, 13>>, 400, 341, NullId, InitTun0(next))]

InitStore ==
    [nfs |-> <<"ue1", "ue2", "gnb1", "amf1", "smf1", "upf1">>,
     connections |-> {[sourceId |-> "ue1", targetId |-> "gnb1"],
                      [sourceId |-> "ue2", targetId |-> "gnb1"],
                      [sourceId |-> "gnb1", targetId |-> "amf1"],
                      [sourceId |-> "upf1", targetId |-> "smf1"]},
     busConnections |-> {[nfId |-> "amf1", busId |-> "bus1"],
                         [nfId |-> "smf1", busId |-> "bus1"]}]

-----------------------------------------------------------------------------
(* Topology store queries *)

\* ids of the stored nodes (dataStore.nfs is an array, kept in insertion order)
StoredIds(ds) == {ds.nfs[i] : i \in DOMAIN ds.nfs}

\* the stored object (a reference, given by its id) or null
getNFById(ds, id) == IF id \in StoredIds(ds) THEN <<id>> ELSE Null

getAllNFs(ds) == ds.nfs

getConnectionsForNF(ds, id) ==
    {c \in ds.connections : c.sourceId = id \/ c.targetId = id}

getBusConnectionsForNF(ds, id) == {bc \in ds.busConnections : bc.nfId = id}

\* variant of the lookup below that reads the type from the object a caller
\* still holds, whether or not the store has the node
TypeOfObject(ds, objs, id) == IF id \in DOMAIN objs THEN objs[id].type ELSE NullId

\* type of the stored node, NullId for `nf?.type` of a missing node
TypeOf(ds, objs, id) == IF id \in StoredIds(ds) THEN objs[id].type ELSE NullId

\* nfManager.deleteNetworkFunction: the node and everything referencing it
removeNF(ds, id) ==
    [nfs |-> SelectSeq(ds.nfs, LAMBDA n : n # id),
     connections |-> {c \in ds.connections : c.sourceId # id /\ c.targetId # id},
     busConnections |-> {bc \in ds.busConnections : bc.nfId # id}]

-----------------------------------------------------------------------------
(* SessionManager: reachability and prerequisites *)

\* variant of the function below that looks at links only, not at buses
RECURSIVE areNFsConnectedByLinks(_, _, _, _)
areNFsConnectedByLinks(ds, objs, nfId1, nfId2) ==
    LET connections == getConnectionsForNF(ds, nfId1)
        t1 == TypeOf(ds, objs, nfId1)
        t2 == TypeOf(ds, objs, nfId2)
        ueId == IF t1 = "UE" THEN nfId1 ELSE nfId2
        otherId == IF t1 = "UE" THEN nfId2 ELSE nfId1
        gnbOf(conn) == IF conn.sourceId = ueId THEN conn.targetId ELSE conn.sourceId
    IN  IF \E conn \in connections : conn.sourceId = nfId2 \/ conn.targetId = nfId2
        THEN TRUE
        ELSE IF t1 = "UE" \/ t2 = "UE"
             THEN \E conn \in connections :
                      /\ TypeOf(ds, objs, gnbOf(conn)) = "gNB"
                      /\ areNFsConnectedByLinks(ds, objs, gnbOf(conn), otherId)
             ELSE FALSE

RECURSIVE areNFsConnected(_, _, _, _)
areNFsConnected(ds, objs, nfId1, nfId2) ==
    LET connections == getConnectionsForNF(ds, nfId1)
        hasDirectConnection ==
            \E conn \in connections : conn.sourceId = nfId2 \/ conn.targetId = nfId2
        shareBus ==
            \E bc1 \in getBusConnectionsForNF(ds, nfId1) :
                \E bc2 \in getBusConnectionsForNF(ds, nfId2) : bc1.busId = bc2.busId
        t1 == TypeOf(ds, objs, nfId1)
        t2 == TypeOf(ds, objs, nfId2)
        ueId == IF t1 = "UE" THEN nfId1 ELSE nfId2
        otherId == IF t1 = "UE" THEN nfId2 ELSE nfId1
        gnbOf(conn) == IF conn.sourceId = ueId THEN conn.targetId ELSE conn.sourceId
    IN  IF hasDirectConnection THEN TRUE
        ELSE IF shareBus THEN TRUE
        ELSE IF t1 = "UE" \/ t2 = "UE"
             THEN \E conn \in connections :
                      /\ TypeOf(ds, objs, gnbOf(conn)) = "gNB"
                      /\ areNFsConnected(ds, objs, gnbOf(conn), otherId)
             ELSE FALSE

getNetworkFromIP(ip) ==
    IF ip = Null THEN Null
    ELSE IF Len(ip) # 4 THEN Null
    ELSE SubSeq(ip, 1, 3)

\* allNFs.find(nf => nf.type === t && nf.status === 'stable' && same subnet):
\* the first match in array order, NullId when there is none
findStable(ds, objs, t, net) ==
    LET all == getAllNFs(ds)
        hit(i) == /\ objs[all[i]].type = t
                  /\ objs[all[i]].status = "stable"
                  /\ getNetworkFromIP(objs[all[i]].ipAddress) = net
        hits == {i \in DOMAIN all : hit(i)}
    IN  IF hits = {} THEN NullId
        ELSE all[CHOOSE i \in hits : \A j \in hits : i <= j]

Invalid(reason) == [valid |-> FALSE, error |-> reason, nfs |-> Null]

\* variant of the function below that looks for the session function before
\* it checks that the access function is reachable
validatePrerequisitesSMFFirst(ds, objs, ueId) ==
    IF ~(ueId \in StoredIds(ds) /\ objs[ueId].type = "UE") THEN Invalid("UE not found")
    ELSE IF objs[ueId].subscriberImsi = NullId
    THEN Invalid("UE is not registered (no IMSI configured)")
    ELSE
    LET ueNetwork == getNetworkFromIP(objs[ueId].ipAddress)
        amf == findStable(ds, objs, "AMF", ueNetwork)
        smf == findStable(ds, objs, "SMF", ueNetwork)
        upf == findStable(ds, objs, "UPF", ueNetwork)
    IN  IF amf = NullId THEN Invalid("No stable AMF found in same subnet")
        ELSE IF smf = NullId THEN Invalid("No stable SMF found in same subnet")
        ELSE IF ~areNFsConnected(ds, objs, ueId, amf)
        THEN Invalid("UE is not connected to AMF (directly or via gNB)")
        ELSE IF upf = NullId THEN Invalid("No stable UPF found in same subnet")
        ELSE IF objs[upf].tun0Interface = Null
        THEN Invalid("UPF does not have tun0 interface configured")
        ELSE [valid |-> TRUE, error |-> NullId,
              nfs |-> <<[ue |-> ueId, amf |-> amf, smf |-> smf, upf |-> upf]>>]

validatePrerequisites(ds, objs, ueId) ==
    IF ~(ueId \in StoredIds(ds) /\ objs[ueId].type = "UE") THEN Invalid("UE not found")
    ELSE IF objs[ueId].subscriberImsi = NullId
    THEN Invalid("UE is not registered (no IMSI configured)")
    ELSE
    LET ueNetwork == getNetworkFromIP(objs[ueId].ipAddress)
        amf == findStable(ds, objs, "AMF", ueNetwork)
        smf == findStable(ds, objs, "SMF", ueNetwork)
        upf == findStable(ds, objs, "UPF", ueNetwork)
    IN  IF amf = NullId THEN Invalid("No stable AMF found in same subnet")
        ELSE IF ~areNFsConnected(ds, objs, ueId, amf)
        THEN Invalid("UE is not connected to AMF (directly or via gNB)")
        ELSE IF smf = NullId THEN Invalid("No stable SMF found in same subnet")
        ELSE IF upf = NullId THEN Invalid("No stable UPF found in same subnet")
        ELSE IF objs[upf].tun0Interface = Null
        THEN Invalid("UPF does not have tun0 interface configured")
        ELSE [valid |-> TRUE, error |-> NullId,
              nfs |-> <<[ue |-> ueId, amf |-> amf, smf |-> smf, upf |-> upf]>>]

-----------------------------------------------------------------------------
(* SessionManager: address pool *)

\* variant of the set below for a loop that stops before the last host
FreeHostsBelowLast(tun0) ==
    LET start == IF tun0.nextAvailableIP = NullNum THEN FirstHost ELSE tun0.nextAvailableIP
    IN  {n \in start..(LastHost - 1) : ~\E a \in tun0.assignedIPs : a.ip = HostIP(n)}

\* the candidate addresses `while (nextIP <= 14)` visits that no entry holds
FreeHosts(tun0) ==
    LET start == IF tun0.nextAvailableIP = NullNum THEN FirstHost ELSE tun0.nextAvailableIP
    IN  {n \in start..LastHost : ~\E a \in tun0.assignedIPs : a.ip = HostIP(n)}

\* variant of the function below that leaves the next-free counter as it is
allocateUEIPKeepsCounter(objs, upfId, ueId) ==
    IF objs[upfId].tun0Interface = Null THEN [ueIp |-> FallbackIP, objs |-> objs]
    ELSE
    LET tun0 == objs[upfId].tun0Interface[1]
        free == FreeHosts(tun0)
    IN  IF free = {} THEN [ueIp |-> FallbackIP, objs |-> objs]
        ELSE
        LET nextIP == CHOOSE n \in free : \A m \in free : n <= m
            tun1 == [tun0 EXCEPT
                        !.assignedIPs = @ \cup {[ueId |-> ueId, ip |-> HostIP(nextIP)]}]
        IN  [ueIp |-> HostIP(nextIP),
             objs |-> [objs EXCEPT ![upfId].tun0Interface = <<tun1>>]]

\* variant of the function below that returns the first free address without
\* entering it in the mapping or moving the counter
allocateUEIPUnrecorded(objs, upfId, ueId) ==
    IF objs[upfId].tun0Interface = Null THEN [ueIp |-> FallbackIP, objs |-> objs]
    ELSE
    LET free == FreeHosts(objs[upfId].tun0Interface[1])
    IN  IF free = {} THEN [ueIp |-> FallbackIP, objs |-> objs]
        ELSE [ueIp |-> HostIP(CHOOSE n \in free : \A m \in free : n <= m), objs |-> objs]

\* allocateUEIP(upf, ue): the address returned and the heap after the call
allocateUEIP(objs, upfId, ueId) ==
    IF objs[upfId].tun0Interface = Null THEN [ueIp |-> FallbackIP, objs |-> objs]
    ELSE
    LET tun0 == objs[upfId].tun0Interface[1]
        free == FreeHosts(tun0)
    IN  IF free = {} THEN [ueIp |-> FallbackIP, objs |-> objs]
        ELSE
        LET nextIP == CHOOSE n \in free : \A m \in free : n <= m
            tun1 == [tun0 EXCEPT
                        !.assignedIPs = @ \cup {[ueId |-> ueId, ip |-> HostIP(nextIP)]},
                        !.nextAvailableIP = nextIP + 1]
        IN  [ueIp |-> HostIP(nextIP),
             objs |-> [objs EXCEPT ![upfId].tun0Interface = <<tun1>>]]

-----------------------------------------------------------------------------
(* PacketAnimator *)

\* one progress unit per frame; a segment is FramesPerSegment units long
One == FramesPerSegment
defaultSpeed == 1

getNFBusConnectionPoint(nf, bus) ==
    IF bus.orientation = "horizontal"
    THEN [x |-> nf.position.x, y |-> bus.position.y]
    ELSE [x |-> bus.position.x, y |-> nf.position.y]

Abs(n) == IF n < 0 THEN -n ELSE n

\* variant of the function below that slides along the bus from the threshold on
calculatePathSlideAtThreshold(ds, objs, sourceId, targetId) ==
    LET source == objs[sourceId]
        target == objs[targetId]
        common == {sbc.busId : sbc \in {c \in getBusConnectionsForNF(ds, sourceId) :
                       \E tbc \in getBusConnectionsForNF(ds, targetId) :
                           c.busId = tbc.busId /\ c.busId \in BusIds}}
        first == <<[x |-> source.position.x, y |-> source.position.y]>>
        last == <<[x |-> target.position.x, y |-> target.position.y]>>
    IN  IF common = {} THEN first \o last
        ELSE
        LET commonBus == busObj[CHOOSE b \in common : TRUE]
            sourceBusPoint == getNFBusConnectionPoint(source, commonBus)
            targetBusPoint == getNFBusConnectionPoint(target, commonBus)
            slide ==
                IF commonBus.orientation = "horizontal"
                THEN IF Abs(sourceBusPoint.x - targetBusPoint.x) >= BusSlideThreshold
                     THEN <<[x |-> targetBusPoint.x, y |-> sourceBusPoint.y]>> ELSE <<>>
                ELSE IF Abs(sourceBusPoint.y - targetBusPoint.y) >= BusSlideThreshold
                     THEN <<[x |-> sourceBusPoint.x, y |-> targetBusPoint.y]>> ELSE <<>>
        IN  first \o <<sourceBusPoint>> \o slide \o <<targetBusPoint>> \o last

\* calculatePath(source, target): the waypoints, via the common bus if any
calculatePath(ds, objs, sourceId, targetId) ==
    LET source == objs[sourceId]
        target == objs[targetId]
        common == {sbc.busId : sbc \in {c \in getBusConnectionsForNF(ds, sourceId) :
                       \E tbc \in getBusConnectionsForNF(ds, targetId) :
                           c.busId = tbc.busId /\ c.busId \in BusIds}}
        first == <<[x |-> source.position.x, y |-> source.position.y]>>
        last == <<[x |-> target.position.x, y |-> target.position.y]>>
    IN  IF common = {} THEN first \o last
        ELSE
        LET commonBus == busObj[CHOOSE b \in common : TRUE]
            sourceBusPoint == getNFBusConnectionPoint(source, commonBus)
            targetBusPoint == getNFBusConnectionPoint(target, commonBus)
            slide ==
                IF commonBus.orientation = "horizontal"
                THEN IF Abs(sourceBusPoint.x - targetBusPoint.x) > BusSlideThreshold
                     THEN <<[x |-> targetBusPoint.x, y |-> sourceBusPoint.y]>> ELSE <<>>
                ELSE IF Abs(sourceBusPoint.y - targetBusPoint.y) > BusSlideThreshold
                     THEN <<[x |-> sourceBusPoint.x, y |-> targetBusPoint.y]>> ELSE <<>>
        IN  first \o <<sourceBusPoint>> \o slide \o <<targetBusPoint>> \o last

NewAnimator ==
    [packets |-> <<>>, isRunning |-> FALSE, animationFrameId |-> FALSE,
     tracked |-> FALSE, stale |-> 0]

\* animation-frame callbacks requested and not yet fired or cancelled
PendingFrames(A) == (IF A.tracked THEN 1 ELSE 0) + A.stale

\* the `while (segmentProgress >= 1.0 && seg < path.length - 1)` loop, with
\* progress counted in units of which `unit` make 1.0
RECURSIVE CarryOverIn(_, _, _, _)
CarryOverIn(unit, progress, seg, pathLength) ==
    IF progress >= unit /\ seg < pathLength - 1
    THEN CarryOverIn(unit, progress - unit, seg + 1, pathLength)
    ELSE [segmentProgress |-> progress, currentSegment |-> seg]

\* the forEach body of updatePackets for one packet
AdvancePacketIn(unit, p) ==
    LET c == CarryOverIn(unit, p.segmentProgress + p.speed, p.currentSegment, Len(p.path))
        arrived == c.currentSegment >= Len(p.path) - 1 /\ c.segmentProgress >= unit
    IN  [p EXCEPT !.currentSegment = c.currentSegment,
                  !.segmentProgress = IF arrived THEN unit ELSE c.segmentProgress,
                  !.completed = arrived]

AdvancePacket(p) == AdvancePacketIn(One, p)

\* stopAnimation(): cancelAnimationFrame reaches only the frame last requested
stopAnimation(A) ==
    [A EXCEPT !.isRunning = FALSE,
              !.tracked = IF A.animationFrameId THEN FALSE ELSE @,
              !.animationFrameId = FALSE]

\* variant of the pass below that invokes the continuations of the completed
\* packets and leaves them in the live set
updatePacketsKeepsCompleted(A) ==
    LET moved == [i \in DOMAIN A.packets |-> AdvancePacket(A.packets[i])]
        fired == {moved[i].onComplete : i \in {j \in DOMAIN moved : moved[j].completed}}
        A1 == [A EXCEPT !.packets = moved]
    IN  [A |-> IF Len(moved) = 0 THEN stopAnimation(A1) ELSE A1, fired |-> fired]

\* updatePackets(): the animator after the pass and the continuations it invoked
updatePacketsIn(unit, A) ==
    LET moved == [i \in DOMAIN A.packets |-> AdvancePacketIn(unit, A.packets[i])]
        live == SelectSeq(moved, LAMBDA p : ~p.completed)
        fired == {moved[i].onComplete : i \in {j \in DOMAIN moved : moved[j].completed}}
        A1 == [A EXCEPT !.packets = live]
    IN  [A |-> IF Len(live) = 0 THEN stopAnimation(A1) ELSE A1, fired |-> fired]

updatePackets(A) == updatePacketsIn(One, A)

\* `this.animationFrameId = requestAnimationFrame(...)`: the frame requested
\* before is no longer referenced but stays pending
requestFrame(A) ==
    [A EXCEPT !.stale = @ + (IF A.tracked THEN 1 ELSE 0),
              !.tracked = TRUE,
              !.animationFrameId = TRUE]

animate(A) ==
    IF ~A.isRunning THEN [A |-> A, fired |-> {}]
    ELSE LET u == updatePackets(A)
         IN  [A |-> requestFrame(u.A), fired |-> u.fired]

\* variant of the function below that sets the flag and requests no frame
startAnimationFlagOnly(A) == [A |-> [A EXCEPT !.isRunning = TRUE], fired |-> {}]

startAnimation(A) ==
    IF A.isRunning THEN [A |-> A, fired |-> {}]
    ELSE animate([A EXCEPT !.isRunning = TRUE])

\* sendPacket(options): `fired` holds the continuations resolved during the call
sendPacket(A, ds, objs, sourceId, targetId, onComplete) ==
    IF getNFById(ds, sourceId) = Null \/ getNFById(ds, targetId) = Null
    THEN [A |-> A, fired |-> {onComplete}]
    ELSE
    LET packet == [sourceId |-> sourceId, targetId |-> targetId,
                   path |-> calculatePath(ds, objs, sourceId, targetId),
                   currentSegment |-> 0, segmentProgress |-> 0,
                   speed |-> defaultSpeed, onComplete |-> onComplete,
                   completed |-> FALSE]
        A1 == [A EXCEPT !.packets = Append(@, packet)]
    IN  IF ~A1.isRunning THEN startAnimation(A1) ELSE [A |-> A1, fired |-> {}]

-----------------------------------------------------------------------------
(* SessionManager: sessions and the suspended lifecycle calls *)

NewSession(ueId) ==
    [ueId |-> ueId, state |-> STATES.IDLE, pduSessionId |-> NullNum,
     assignedIP |-> Null, tunnelId |-> NullNum, upfId |-> NullId, createdAt |-> NullNum]

\* variant of the function below that sets a new session object on every call
getSessionFresh(S, ueId) ==
    [u \in DOMAIN S \cup {ueId} |-> IF u = ueId THEN NewSession(ueId) ELSE S[u]]

\* getSession(ueId): the sessions map after the call (an entry is created once)
getSession(S, ueId) ==
    IF ueId \in DOMAIN S THEN S ELSE S @@ (ueId :> NewSession(ueId))

Slots == 1..MaxProcs
NoProc == [kind |-> "none", step |-> 0, phase |-> "none", nfs |-> Null, n4 |-> Null]
Running(P, ueId) == {i \in Slots : P[ueId][i].kind # "none"}
\* a further call may be suspended
ProcRoom(P) == Cardinality({<<u, i>> \in UEIds \X Slots : P[u][i].kind # "none"}) < MaxProcs
FreeSlot(P, ueId) == CHOOSE i \in Slots \ Running(P, ueId) :
                         \A j \in Slots \ Running(P, ueId) : i <= j

LogWith(nodeId, level, message, detail) ==
    [nodeId |-> nodeId, level |-> level, message |-> message, detail |-> detail]
Log(nodeId, level, message) == LogWith(nodeId, level, message, NullId)
NoReturn == [op |-> "none", ueId |-> NullId, value |-> FALSE]
Return(op, ueId, value) == [op |-> op, ueId |-> ueId, value |-> value]

\* the six tokens of establishPDUSession, in the order of its awaits
EstablishTokens(nfs) ==
    << [src |-> nfs.ue,  tgt |-> nfs.amf, log |-> Log(nfs.ue,  "INFO", "N1: PDU Session Establishment Request -> AMF")],
       [src |-> nfs.amf, tgt |-> nfs.smf, log |-> Log(nfs.amf, "INFO", "Nsmf_PDUSession_Create (HTTP/2 POST) -> SMF")],
       [src |-> nfs.smf, tgt |-> nfs.upf, log |-> Log(nfs.smf, "INFO", "N4 Session Establishment Request -> UPF")],
       [src |-> nfs.upf, tgt |-> nfs.smf, log |-> Log(nfs.upf, "SUCCESS", "N4 Session Establishment Response -> SMF")],
       [src |-> nfs.smf, tgt |-> nfs.amf, log |-> Log(nfs.smf, "INFO", "PDU Session Accept -> AMF")],
       [src |-> nfs.amf, tgt |-> nfs.ue,  log |-> Log(nfs.amf, "INFO", "N1: PDU Session Establishment Accept -> UE")] >>

\* the six tokens of releasePDUSession (the N4 release sends request and response)
ReleaseTokens(nfs) ==
    << [src |-> nfs.ue,  tgt |-> nfs.amf, log |-> Log(nfs.ue,  "INFO", "N1: PDU Session Release Request -> AMF")],
       [src |-> nfs.amf, tgt |-> nfs.smf, log |-> Log(nfs.amf, "INFO", "Nsmf_PDUSession_Release (HTTP/2 POST) -> SMF")],
       [src |-> nfs.smf, tgt |-> nfs.upf, log |-> Log(nfs.smf, "INFO", "N4 Session Release Request -> UPF")],
       [src |-> nfs.upf, tgt |-> nfs.smf, log |-> Log(nfs.upf, "SUCCESS", "N4 Session Release Response -> SMF")],
       [src |-> nfs.smf, tgt |-> nfs.amf, log |-> Log(nfs.smf, "INFO", "PDU Session Release Confirmation -> AMF")],
       [src |-> nfs.amf, tgt |-> nfs.ue,  log |-> Log(nfs.amf, "INFO", "N1: PDU Session Release Complete -> UE")] >>

TokensOf(kind, nfs) == IF kind = "establish" THEN EstablishTokens(nfs) ELSE ReleaseTokens(nfs)

\* a promise resolved by the animator resumes its call, which then sits in delay(ms)
Resolve(P, fired) ==
    [u \in UEIds |-> [i \in Slots |->
        IF <<u, i>> \in fired THEN [P[u][i] EXCEPT !.phase = "delay"] ELSE P[u][i]]]

\* variant of the function below that submits the token without the log
\* record of its step
SubmitTokenUnlogged(P, A, ds, objs, ueId, i, frame, k) ==
    LET tok == TokensOf(frame.kind, frame.nfs[1])[k]
        r == sendPacket(A, ds, objs, tok.src, tok.tgt, <<ueId, i>>)
        P1 == [P EXCEPT ![ueId][i] = [frame EXCEPT !.step = k, !.phase = "flight"]]
    IN  [procs |-> Resolve(P1, r.fired), A |-> r.A, log |-> <<>>]

\* animatePacket(...) of token k by the call in slot i of ueId: procs and animator
SubmitToken(P, A, ds, objs, ueId, i, frame, k) ==
    LET tok == TokensOf(frame.kind, frame.nfs[1])[k]
        r == sendPacket(A, ds, objs, tok.src, tok.tgt, <<ueId, i>>)
        P1 == [P EXCEPT ![ueId][i] = [frame EXCEPT !.step = k, !.phase = "flight"]]
    IN  [procs |-> Resolve(P1, r.fired), A |-> r.A, log |-> <<tok.log>>]

\* the loop runs or the frame it requested last has fired: a token is submitted
\* after a settling delay of 400 ms or more, a requested frame fires within one
\* display refresh
FrameSettled(A) == A.isRunning \/ PendingFrames(A) = 0

\* variant of cleanupSession that leaves the pool's mapping as it is
cleanupSessionKeepsPool(S, objs, ds, ueId) ==
    LET S0 == getSession(S, ueId)
        cleared ==
            IF getNFById(ds, ueId) # Null
            THEN [objs EXCEPT ![ueId].pduSession = Null,
                              ![ueId].tunInterface = Null,
                              ![ueId].pduSessionState = STATES.RELEASED]
            ELSE objs
    IN  [sessions |-> [S0 EXCEPT ![ueId] = [NewSession(ueId) EXCEPT !.state = STATES.RELEASED]],
         objs |-> cleared,
         log |-> <<Log(ueId, "SUCCESS", "PDU session RELEASED")>>]

\* cleanupSession(ueId): sessions, heap and log after the call
cleanupSession(S, objs, ds, ueId) ==
    LET S0 == getSession(S, ueId)
        session == S0[ueId]
        upfId == session.upfId
        freed ==
            IF /\ upfId # NullId
               /\ session.assignedIP # Null
               /\ getNFById(ds, upfId) # Null
               /\ objs[upfId].tun0Interface # Null
            THEN [objs EXCEPT ![upfId].tun0Interface =
                     <<[@[1] EXCEPT !.assignedIPs = {a \in @ : a.ueId # ueId}]>>]
            ELSE objs
        cleared ==
            IF getNFById(ds, ueId) # Null
            THEN [freed EXCEPT ![ueId].pduSession = Null,
                               ![ueId].tunInterface = Null,
                               ![ueId].pduSessionState = STATES.RELEASED]
            ELSE freed
    IN  [sessions |-> [S0 EXCEPT ![ueId] = [NewSession(ueId) EXCEPT !.state = STATES.RELEASED]],
         objs |-> cleared,
         log |-> <<Log(ueId, "SUCCESS", "PDU session RELEASED")>>]

-----------------------------------------------------------------------------
(* Initial state *)

\* a pool as constructed (next free host 2) or after earlier sessions have come
\* and gone (nothing assigned, at most PoolHeadroom hosts not yet handed out)
InitNextHosts == {FirstHost} \cup {LastHost + 1 - h : h \in 0..PoolHeadroom}

Init ==
    /\ dataStore = InitStore
    /\ \E next \in InitNextHosts : nfObj = InitNFs(next)
    /\ sessions = <<>>
    /\ procs = [u \in UEIds |-> [i \in Slots |-> NoProc]]
    /\ packetAnimator = NewAnimator
    /\ logOut = <<>>
    /\ returned = NoReturn
    /\ incidents = 0
    /\ started = 0
    /\ pduPanel = NoPanel

-----------------------------------------------------------------------------
(* establishPDUSession(ueId) *)

\* variant of the branch below that starts the session record afresh, keeping
\* it ACTIVE
EstablishAlreadyActiveFresh(ueId) ==
    /\ getSession(sessions, ueId)[ueId].state = STATES.ACTIVE
    /\ sessions' = [sessions EXCEPT ![ueId] = [NewSession(ueId) EXCEPT !.state = STATES.ACTIVE]]
    /\ logOut' = <<Log(ueId, "WARNING", "PDU session already active")>>
    /\ returned' = Return("establishPDUSession", ueId, TRUE)
    /\ UNCHANGED <<dataStore, nfObj, procs, packetAnimator, incidents, started, pduPanel>>

\* lines 221-227: already ACTIVE
EstablishAlreadyActive(ueId) ==
    /\ getSession(sessions, ueId)[ueId].state = STATES.ACTIVE
    /\ sessions' = getSession(sessions, ueId)
    /\ logOut' = <<Log(ueId, "WARNING", "PDU session already active")>>
    /\ returned' = Return("establishPDUSession", ueId, TRUE)
    /\ UNCHANGED <<dataStore, nfObj, procs, packetAnimator, incidents, started, pduPanel>>

\* lines 229-232: an establishment is in progress
EstablishInProgress(ueId) ==
    /\ getSession(sessions, ueId)[ueId].state = STATES.ESTABLISHING
    /\ sessions' = getSession(sessions, ueId)
    /\ logOut' = <<>>
    /\ returned' = Return("establishPDUSession", ueId, FALSE)
    /\ UNCHANGED <<dataStore, nfObj, procs, packetAnimator, incidents, started, pduPanel>>

\* variant of the guard below that rejects only an ACTIVE session
EstablishPendingUnlessActive(ueId) ==
    getSession(sessions, ueId)[ueId].state # STATES.ACTIVE

EstablishPending(ueId) ==
    getSession(sessions, ueId)[ueId].state \notin {STATES.ACTIVE, STATES.ESTABLISHING}

\* variant of the branch below that marks the session ESTABLISHING before it
\* validates
EstablishInvalidAfterStateChange(ueId) ==
    LET validation == validatePrerequisites(dataStore, nfObj, ueId)
    IN  /\ EstablishPending(ueId)
        /\ ~validation.valid
        /\ sessions' = [getSession(sessions, ueId) EXCEPT ![ueId].state = STATES.ESTABLISHING]
        /\ logOut' = <<LogWith(ueId, "ERROR", "PDU session establishment failed", validation.error)>>
        /\ returned' = Return("establishPDUSession", ueId, FALSE)
        /\ UNCHANGED <<dataStore, nfObj, procs, packetAnimator, incidents, started, pduPanel>>

\* lines 235-242: validation fails
EstablishInvalid(ueId) ==
    LET validation == validatePrerequisites(dataStore, nfObj, ueId)
    IN  /\ EstablishPending(ueId)
        /\ ~validation.valid
        /\ sessions' = getSession(sessions, ueId)
        /\ logOut' = <<LogWith(ueId, "ERROR", "PDU session establishment failed", validation.error)>>
        /\ returned' = Return("establishPDUSession", ueId, FALSE)
        /\ UNCHANGED <<dataStore, nfObj, procs, packetAnimator, incidents, started, pduPanel>>

\* lines 244-257 up to the first await: ESTABLISHING, session id, first token
EstablishBegin(ueId) ==
    LET validation == validatePrerequisites(dataStore, nfObj, ueId)
        S0 == getSession(sessions, ueId)
    IN  /\ EstablishPending(ueId)
        /\ validation.valid
        /\ ProcRoom(procs)
        /\ \E sid \in PduSessionIds :
             LET i == FreeSlot(procs, ueId)
                 frame == [NoProc EXCEPT !.kind = "establish", !.nfs = validation.nfs]
                 r == SubmitToken(procs, packetAnimator, dataStore, nfObj, ueId, i, frame, 1)
             IN  /\ sessions' = [S0 EXCEPT ![ueId].state = STATES.ESTABLISHING,
                                           ![ueId].pduSessionId = sid]
                 /\ procs' = r.procs
                 /\ packetAnimator' = r.A
                 /\ logOut' = r.log
        /\ returned' = NoReturn
        /\ started' = started + 1
        /\ UNCHANGED pduPanel
        /\ UNCHANGED <<dataStore, nfObj, incidents>>

\* a call that starts its sequence, within the bound on sequences and when no
\* frame of a stopped loop is pending
EstablishStart(ueId) ==
    started < MaxStarts /\ FrameSettled(packetAnimator) /\ EstablishBegin(ueId)

\* the catch block, lines 324-334
EstablishCatch(S, ueId) == [S EXCEPT ![ueId].state = STATES.IDLE]
CatchLog(ueId) == <<LogWith(ueId, "ERROR", "PDU session establishment failed", "error.message")>>

\* the first step throws before its token is submitted
EstablishStartThrows(ueId) ==
    LET validation == validatePrerequisites(dataStore, nfObj, ueId)
        S0 == getSession(sessions, ueId)
    IN  /\ EstablishPending(ueId)
        /\ validation.valid
        /\ incidents < MaxIncidents
        /\ incidents' = incidents + 1
        /\ \E sid \in PduSessionIds :
             sessions' = EstablishCatch([S0 EXCEPT ![ueId].pduSessionId = sid], ueId)
        /\ logOut' = CatchLog(ueId)
        /\ returned' = Return("establishPDUSession", ueId, FALSE)
        /\ UNCHANGED <<dataStore, nfObj, procs, packetAnimator, started, pduPanel>>

\* variant of the function below that allocates the address after token 2, at
\* the start of sendN4SessionEstablishment
EstablishBetweenAllocatesEarly(S, objs, ueId, frame) ==
    IF frame.step = 2
    THEN LET a == allocateUEIP(objs, frame.nfs[1].upf, frame.nfs[1].ue)
         IN  {[sessions |-> S, objs |-> a.objs,
               frame |-> [frame EXCEPT !.n4 = <<[ueIp |-> a.ueIp, tunnelId |-> t]>>]]
              : t \in TunnelIds}
    ELSE IF frame.step = 4
    THEN {[sessions |-> [S EXCEPT ![ueId].assignedIP = frame.n4[1].ueIp,
                                  ![ueId].tunnelId = frame.n4[1].tunnelId,
                                  ![ueId].upfId = frame.nfs[1].upf],
           objs |-> objs, frame |-> frame]}
    ELSE {[sessions |-> S, objs |-> objs, frame |-> frame]}

\* what runs between the end of delay k and the log call of token k + 1:
\* after token 3 the allocation (lines 529-530), after token 4 the return of
\* sendN4SessionEstablishment and lines 266-268
EstablishBetween(S, objs, ueId, frame) ==
    IF frame.step = 3
    THEN LET a == allocateUEIP(objs, frame.nfs[1].upf, frame.nfs[1].ue)
         IN  {[sessions |-> S, objs |-> a.objs,
               frame |-> [frame EXCEPT !.n4 = <<[ueIp |-> a.ueIp, tunnelId |-> t]>>]]
              : t \in TunnelIds}
    ELSE IF frame.step = 4
    THEN {[sessions |-> [S EXCEPT ![ueId].assignedIP = frame.n4[1].ueIp,
                                  ![ueId].tunnelId = frame.n4[1].tunnelId,
                                  ![ueId].upfId = frame.nfs[1].upf],
           objs |-> objs, frame |-> frame]}
    ELSE {[sessions |-> S, objs |-> objs, frame |-> frame]}

\* the delay after token k has elapsed and token k + 1 is submitted
EstablishStep(ueId, i) ==
    LET frame == procs[ueId][i]
    IN  /\ frame.kind = "establish" /\ frame.phase = "delay" /\ frame.step < 6
        /\ FrameSettled(packetAnimator)
        /\ \E b \in EstablishBetween(sessions, nfObj, ueId, frame) :
             LET r == SubmitToken(procs, packetAnimator, dataStore, b.objs, ueId, i,
                                  b.frame, frame.step + 1)
             IN  /\ sessions' = b.sessions
                 /\ nfObj' = b.objs
                 /\ procs' = r.procs
                 /\ packetAnimator' = r.A
                 /\ logOut' = r.log
        /\ returned' = NoReturn
        /\ UNCHANGED <<dataStore, incidents, started, pduPanel>>

\* variant of the action below whose catch block gives the terminal's
\* addresses back to the pool
EstablishStepThrowsRollsBack(ueId, i) ==
    LET frame == procs[ueId][i]
    IN  /\ frame.kind = "establish" /\ frame.phase = "delay" /\ frame.step < 6
        /\ incidents < MaxIncidents
        /\ incidents' = incidents + 1
        /\ \E b \in EstablishBetween(sessions, nfObj, ueId, frame) :
             /\ sessions' = EstablishCatch(b.sessions, ueId)
             /\ nfObj' = IF b.objs[frame.nfs[1].upf].tun0Interface = Null THEN b.objs
                          ELSE [b.objs EXCEPT ![frame.nfs[1].upf].tun0Interface[1].assignedIPs =
                                                  {e \in @ : e.ueId # ueId}]
        /\ procs' = [procs EXCEPT ![ueId][i] = NoProc]
        /\ logOut' = CatchLog(ueId)
        /\ returned' = Return("establishPDUSession", ueId, FALSE)
        /\ UNCHANGED <<dataStore, packetAnimator, started, pduPanel>>

\* the log call of token k + 1 throws: the catch block runs
EstablishStepThrows(ueId, i) ==
    LET frame == procs[ueId][i]
    IN  /\ frame.kind = "establish" /\ frame.phase = "delay" /\ frame.step < 6
        /\ incidents < MaxIncidents
        /\ incidents' = incidents + 1
        /\ \E b \in EstablishBetween(sessions, nfObj, ueId, frame) :
             /\ sessions' = EstablishCatch(b.sessions, ueId)
             /\ nfObj' = b.objs
        /\ procs' = [procs EXCEPT ![ueId][i] = NoProc]
        /\ logOut' = CatchLog(ueId)
        /\ returned' = Return("establishPDUSession", ueId, FALSE)
        /\ UNCHANGED <<dataStore, packetAnimator, started, pduPanel>>

\* variant of the commit below that records the session in the terminal's
\* config and creates no tunnel interface
EstablishCommitWithoutTunnel(S, objs, ueId, nfs) ==
    LET session == S[ueId]
    IN  [sessions |-> [S EXCEPT ![ueId].state = STATES.ACTIVE, ![ueId].createdAt = 1],
         objs |-> [objs EXCEPT
            ![nfs.ue].pduSession = <<[sessionId |-> session.pduSessionId, upfId |-> nfs.upf,
                                      assignedIP |-> session.assignedIP,
                                      status |-> "established"]>>,
            ![nfs.ue].pduSessionState = STATES.ACTIVE]]

\* lines 276-322: the commit to the terminal's config and ACTIVE
EstablishCommit(S, objs, ueId, nfs) ==
    LET session == S[ueId]
        tun0 == objs[nfs.upf].tun0Interface
    IN  [sessions |-> [S EXCEPT ![ueId].state = STATES.ACTIVE, ![ueId].createdAt = 1],
         objs |-> [objs EXCEPT
            ![nfs.ue].pduSession = <<[sessionId |-> session.pduSessionId, upfId |-> nfs.upf,
                                      assignedIP |-> session.assignedIP,
                                      status |-> "established"]>>,
            ![nfs.ue].pduSessionState = STATES.ACTIVE,
            ![nfs.ue].tunInterface = <<[ipAddress |-> session.assignedIP,
                                        destination |-> session.assignedIP,
                                        gateway |-> IF tun0 = Null THEN DefaultGatewayIP
                                                    ELSE tun0[1].gatewayIP]>>]]

EstablishComplete(ueId, i) ==
    LET frame == procs[ueId][i]
        c == EstablishCommit(sessions, nfObj, ueId, frame.nfs[1])
    IN  /\ frame.kind = "establish" /\ frame.phase = "delay" /\ frame.step = 6
        /\ sessions' = c.sessions
        /\ nfObj' = c.objs
        /\ procs' = [procs EXCEPT ![ueId][i] = NoProc]
        /\ logOut' = <<Log(ueId, "SUCCESS", "PDU session ACTIVE")>>
        /\ returned' = Return("establishPDUSession", ueId, TRUE)
        /\ UNCHANGED <<dataStore, packetAnimator, incidents, started, pduPanel>>

-----------------------------------------------------------------------------
(* releasePDUSession(ueId) *)

\* variant of the branch below that cleans the session up before it returns
ReleaseNotActiveCleansUp(ueId) ==
    LET c == cleanupSession(sessions, nfObj, dataStore, ueId)
    IN  /\ getSession(sessions, ueId)[ueId].state # STATES.ACTIVE
        /\ sessions' = c.sessions
        /\ nfObj' = c.objs
        /\ logOut' = <<Log(ueId, "WARNING", "No active PDU session to release")>>
        /\ returned' = Return("releasePDUSession", ueId, FALSE)
        /\ UNCHANGED <<dataStore, procs, packetAnimator, incidents, started, pduPanel>>

\* lines 345-351: nothing to release
ReleaseNotActive(ueId) ==
    /\ getSession(sessions, ueId)[ueId].state # STATES.ACTIVE
    /\ sessions' = getSession(sessions, ueId)
    /\ logOut' = <<Log(ueId, "WARNING", "No active PDU session to release")>>
    /\ returned' = Return("releasePDUSession", ueId, FALSE)
    /\ UNCHANGED <<dataStore, nfObj, procs, packetAnimator, incidents, started, pduPanel>>

ReleasePending(ueId) ==
    ueId \in DOMAIN sessions /\ sessions[ueId].state = STATES.ACTIVE

\* lines 353-354: the terminal's node is no longer in the store
ReleaseNoUE(ueId) ==
    /\ ReleasePending(ueId)
    /\ getNFById(dataStore, ueId) = Null
    /\ logOut' = <<>>
    /\ returned' = Return("releasePDUSession", ueId, FALSE)
    /\ UNCHANGED <<dataStore, nfObj, sessions, procs, packetAnimator, incidents, started, pduPanel>>

\* lines 356-361: validation fails, the session is cleaned up locally
ReleaseInvalid(ueId) ==
    LET c == cleanupSession(sessions, nfObj, dataStore, ueId)
    IN  /\ ReleasePending(ueId)
        /\ getNFById(dataStore, ueId) # Null
        /\ ~validatePrerequisites(dataStore, nfObj, ueId).valid
        /\ sessions' = c.sessions
        /\ nfObj' = c.objs
        /\ logOut' = c.log
        /\ returned' = Return("releasePDUSession", ueId, TRUE)
        /\ UNCHANGED <<dataStore, procs, packetAnimator, incidents, started, pduPanel>>

\* lines 363-373 up to the first await: RELEASING and the first token
ReleaseBegin(ueId) ==
    LET validation == validatePrerequisites(dataStore, nfObj, ueId)
    IN  /\ ReleasePending(ueId)
        /\ getNFById(dataStore, ueId) # Null
        /\ validation.valid
        /\ ProcRoom(procs)
        /\ FrameSettled(packetAnimator)
        /\ LET i == FreeSlot(procs, ueId)
               frame == [NoProc EXCEPT !.kind = "release", !.nfs = validation.nfs]
               r == SubmitToken(procs, packetAnimator, dataStore, nfObj, ueId, i, frame, 1)
           IN  /\ procs' = r.procs
               /\ packetAnimator' = r.A
               /\ logOut' = r.log
        /\ sessions' = [sessions EXCEPT ![ueId].state = STATES.RELEASING]
        /\ returned' = NoReturn
        /\ started' = started + 1
        /\ UNCHANGED pduPanel
        /\ UNCHANGED <<dataStore, nfObj, incidents>>

\* a call that starts its sequence, within the bound on sequences
ReleaseStart(ueId) == started < MaxStarts /\ ReleaseBegin(ueId)

\* the first release step throws: lines 394-398
ReleaseStartThrows(ueId) ==
    LET c == cleanupSession([sessions EXCEPT ![ueId].state = STATES.RELEASING],
                            nfObj, dataStore, ueId)
    IN  /\ ReleasePending(ueId)
        /\ getNFById(dataStore, ueId) # Null
        /\ validatePrerequisites(dataStore, nfObj, ueId).valid
        /\ incidents < MaxIncidents
        /\ incidents' = incidents + 1
        /\ sessions' = c.sessions
        /\ nfObj' = c.objs
        /\ logOut' = c.log
        /\ returned' = Return("releasePDUSession", ueId, FALSE)
        /\ UNCHANGED <<dataStore, procs, packetAnimator, started, pduPanel>>

\* the delay after release token k has elapsed and token k + 1 is submitted
ReleaseStep(ueId, i) ==
    LET frame == procs[ueId][i]
        r == SubmitToken(procs, packetAnimator, dataStore, nfObj, ueId, i, frame,
                         frame.step + 1)
    IN  /\ frame.kind = "release" /\ frame.phase = "delay" /\ frame.step < 6
        /\ FrameSettled(packetAnimator)
        /\ procs' = r.procs
        /\ packetAnimator' = r.A
        /\ logOut' = r.log
        /\ returned' = NoReturn
        /\ UNCHANGED <<dataStore, nfObj, sessions, incidents, started, pduPanel>>

\* the log call of release token k + 1 throws: cleanup in the catch block
ReleaseStepThrows(ueId, i) ==
    LET frame == procs[ueId][i]
        c == cleanupSession(sessions, nfObj, dataStore, ueId)
    IN  /\ frame.kind = "release" /\ frame.phase = "delay" /\ frame.step < 6
        /\ incidents < MaxIncidents
        /\ incidents' = incidents + 1
        /\ sessions' = c.sessions
        /\ nfObj' = c.objs
        /\ procs' = [procs EXCEPT ![ueId][i] = NoProc]
        /\ logOut' = c.log
        /\ returned' = Return("releasePDUSession", ueId, FALSE)
        /\ UNCHANGED <<dataStore, packetAnimator, started, pduPanel>>

\* lines 387-392: cleanup after the last token
ReleaseComplete(ueId, i) ==
    LET frame == procs[ueId][i]
        c == cleanupSession(sessions, nfObj, dataStore, ueId)
    IN  /\ frame.kind = "release" /\ frame.phase = "delay" /\ frame.step = 6
        /\ sessions' = c.sessions
        /\ nfObj' = c.objs
        /\ procs' = [procs EXCEPT ![ueId][i] = NoProc]
        /\ logOut' = c.log
        /\ returned' = Return("releasePDUSession", ueId, TRUE)
        /\ UNCHANGED <<dataStore, packetAnimator, incidents, started, pduPanel>>

-----------------------------------------------------------------------------
(* Animation frames and the editor *)

\* a requested animation frame fires and runs animate()
FrameFires(A0) ==
    LET r == animate(A0)
    IN  /\ packetAnimator' = r.A
        /\ procs' = Resolve(procs, r.fired)
        /\ logOut' = <<>>
        /\ returned' = NoReturn
        /\ UNCHANGED <<dataStore, nfObj, sessions, incidents, started, pduPanel>>

\* the frame animationFrameId refers to
TrackedFrame ==
    /\ packetAnimator.tracked
    /\ FrameFires([packetAnimator EXCEPT !.tracked = FALSE])

\* UIController.deleteNF(nfId), confirmed by the user
deleteNF(nfId) ==
    /\ incidents < MaxIncidents
    /\ getNFById(dataStore, nfId) # Null
    /\ dataStore' = removeNF(dataStore, nfId)
    /\ incidents' = incidents + 1
    /\ logOut' = <<>>
    /\ returned' = NoReturn
    /\ UNCHANGED <<nfObj, sessions, procs, packetAnimator, started, pduPanel>>

-----------------------------------------------------------------------------

establishPDUSession(ueId) ==
    \/ EstablishAlreadyActive(ueId)
    \/ EstablishInProgress(ueId)
    \/ EstablishInvalid(ueId)
    \/ EstablishStart(ueId)
    \/ EstablishStartThrows(ueId)

releasePDUSession(ueId) ==
    \/ ReleaseNotActive(ueId)
    \/ ReleaseNoUE(ueId)
    \/ ReleaseInvalid(ueId)
    \/ ReleaseStart(ueId)
    \/ ReleaseStartThrows(ueId)

\* a setTimeout of delay(ms) fires and the suspended call continues
TimerFires(ueId, i) ==
    \/ EstablishStep(ueId, i)
    \/ EstablishStepThrows(ueId, i)
    \/ EstablishComplete(ueId, i)
    \/ ReleaseStep(ueId, i)
    \/ ReleaseStepThrows(ueId, i)
    \/ ReleaseComplete(ueId, i)

Next ==
    \/ \E ueId \in UEIds : establishPDUSession(ueId)
    \/ \E ueId \in UEIds : releasePDUSession(ueId)
    \/ \E ueId \in UEIds : \E i \in Slots : TimerFires(ueId, i)
    \/ TrackedFrame
    \/ \E nfId \in Deletable : deleteNF(nfId)

Spec == Init /\ [][Next]_vars

-----------------------------------------------------------------------------
(* Establishments left to run: no step fails, no node is deleted, nothing is
   released.  A requested animation frame and an armed timer fire in the end
   (the browser's event loop runs them); nothing obliges the user to start an
   establishment. *)

LiveNext ==
    \/ \E ueId \in UEIds : EstablishStart(ueId)
    \/ \E ueId \in UEIds : \E i \in Slots : EstablishStep(ueId, i)
    \/ \E ueId \in UEIds : \E i \in Slots : EstablishComplete(ueId, i)
    \/ TrackedFrame

\* the timer of the call in slot i of ueId has been armed and may fire: the
\* guard of EstablishStep and EstablishComplete
TimerReady(ueId, i) ==
    /\ procs[ueId][i].kind = "establish"
    /\ procs[ueId][i].phase = "delay"
    /\ procs[ueId][i].step < 6 => FrameSettled(packetAnimator)

\* WF_vars(EstablishStep(ueId, i) \/ EstablishComplete(ueId, i)), written out
\* with the guard above for the action's enabledness
TimerFairness(ueId, i) ==
    \/ []<>(~TimerReady(ueId, i))
    \/ []<><<EstablishStep(ueId, i) \/ EstablishComplete(ueId, i)>>_vars

LiveSpec ==
    /\ Init
    /\ [][LiveNext]_vars
    /\ WF_vars(TrackedFrame)
    /\ \A ueId \in UEIds : \A i \in Slots : TimerFairness(ueId, i)

-----------------------------------------------------------------------------
(* The topology editor: the canvas before and between the lifecycles *)

\* x positions the user drags the session function to on the canvas
PlacementXs == {389, 390, 395}
\* an address outside the deployment's subnet, entered in the config panel
OtherSubnetIP(nfId) == <<192, 168, 2, IF nfId = "amf1" THEN 11 ELSE IF nfId = "smf1" THEN 12 ELSE 13>>

\* dataStore.addConnection(conn) of connectionManager.createManualConnection
addConnection(ds, sourceId, targetId) ==
    [ds EXCEPT !.connections = @ \cup {[sourceId |-> sourceId, targetId |-> targetId]}]

\* dataStore.addBusConnection(busConn) of busManager.connectNFToBus
addBusConnection(ds, nfId, busId) ==
    [ds EXCEPT !.busConnections = @ \cup {[nfId |-> nfId, busId |-> busId]}]

\* node objects as the canvas can hold them: the one-click deployment, or one
\* with a terminal whose config holds no subscriberImsi, a control-plane
\* function still starting, or a gateway added by hand (no tun0 interface)
EditorNFs ==
    LET deployed == InitNFs(FirstHost)
    IN  {deployed,
         [deployed EXCEPT !["ue2"].subscriberImsi = NullId],
         [deployed EXCEPT !["amf1"].status = "starting"],
         [deployed EXCEPT !["upf1"].tun0Interface = NoTun0]}

\* the links and bus attachments of the deployment, or none drawn yet
EditorStores ==
    {InitStore, [InitStore EXCEPT !.connections = {}, !.busConnections = {}]}

EditorInit ==
    /\ dataStore \in EditorStores
    /\ \E objs \in EditorNFs : \E x \in PlacementXs :
           nfObj = [objs EXCEPT !["smf1"].position.x = x]
    /\ sessions = <<>>
    /\ procs = [u \in UEIds |-> [i \in Slots |-> NoProc]]
    /\ packetAnimator = NewAnimator
    /\ logOut = <<>>
    /\ returned = NoReturn
    /\ incidents = 0
    /\ started = 0
    /\ pduPanel = NoPanel

\* selectDestinationNF(nf) after selectSourceNF: a link from the source to the
\* destination, stored in the direction it was drawn
selectDestinationNF(sourceId, targetId) ==
    /\ incidents < MaxEdits
    /\ sourceId # targetId
    /\ getNFById(dataStore, sourceId) # Null
    /\ getNFById(dataStore, targetId) # Null
    /\ ~\E c \in getConnectionsForNF(dataStore, sourceId) :
           c.sourceId = targetId \/ c.targetId = targetId
    /\ dataStore' = addConnection(dataStore, sourceId, targetId)
    /\ incidents' = incidents + 1
    /\ logOut' = <<>>
    /\ returned' = NoReturn
    /\ UNCHANGED <<nfObj, sessions, procs, packetAnimator, started, pduPanel>>

\* selectBus(bus) after selectSourceNF: the node is attached to the bus
selectBus(nfId, busId) ==
    /\ incidents < MaxEdits
    /\ getNFById(dataStore, nfId) # Null
    /\ [nfId |-> nfId, busId |-> busId] \notin dataStore.busConnections
    /\ dataStore' = addBusConnection(dataStore, nfId, busId)
    /\ incidents' = incidents + 1
    /\ logOut' = <<>>
    /\ returned' = NoReturn
    /\ UNCHANGED <<nfObj, sessions, procs, packetAnimator, started, pduPanel>>

\* saveNFConfig(nfId) of a node that is not a terminal: a new address no other
\* node uses
saveNFConfig(nfId, ipAddress) ==
    /\ incidents < MaxEdits
    /\ getNFById(dataStore, nfId) # Null
    /\ nfObj[nfId].type # "UE"
    /\ \A id \in StoredIds(dataStore) : nfObj[id].ipAddress # ipAddress
    /\ nfObj' = [nfObj EXCEPT ![nfId].ipAddress = ipAddress]
    /\ incidents' = incidents + 1
    /\ logOut' = <<LogWith(nfId, "INFO", "Configuration updated", NullId)>>
    /\ returned' = NoReturn
    /\ UNCHANGED <<dataStore, sessions, procs, packetAnimator, started, pduPanel>>

\* the editor, and the establishments the user tries on a topology that is
\* not ready for them
EditorNext ==
    \/ \E sourceId \in NFIds : \E targetId \in NFIds : selectDestinationNF(sourceId, targetId)
    \/ \E nfId \in NFIds : \E busId \in BusIds : selectBus(nfId, busId)
    \/ \E nfId \in {"amf1", "smf1", "upf1"} : saveNFConfig(nfId, OtherSubnetIP(nfId))
    \/ \E nfId \in NFIds : deleteNF(nfId)
    \/ \E ueId \in UEIds : EstablishInvalid(ueId)

EditorSpec == EditorInit /\ [][EditorNext]_vars

-----------------------------------------------------------------------------
(* The address pool in isolation: allocations with no release between them *)

AllocInit ==
    /\ dataStore = InitStore
    /\ nfObj = InitNFs(FirstHost)
    /\ sessions = <<>>
    /\ procs = [u \in UEIds |-> [i \in Slots |-> NoProc]]
    /\ packetAnimator = NewAnimator
    /\ logOut = <<>>
    /\ returned = NoReturn
    /\ incidents = 0
    /\ started = 0
    /\ pduPanel = NoPanel

\* `sessionManager.allocateUEIP(upf, ue)` as the step-by-step mode calls it
\* for the gateway and a terminal
AllocateAddress(ueId) ==
    LET a == allocateUEIP(nfObj, "upf1", ueId)
    IN  /\ nfObj' = a.objs
        /\ returned' = Return("allocateUEIP", ueId, a.ueIp)
        /\ logOut' = <<>>
        /\ UNCHANGED <<dataStore, sessions, procs, packetAnimator, incidents, started, pduPanel>>

AllocNext == \E ueId \in UEIds : AllocateAddress(ueId)

AllocSpec == AllocInit /\ [][AllocNext]_vars

-----------------------------------------------------------------------------
(* Properties *)

StateOf(S, ueId) == getSession(S, ueId)[ueId].state
SequencesOf(P, ueId, kind) == {i \in Slots : P[ueId][i].kind = kind}
Pool(objs, upfId) ==
    IF objs[upfId].tun0Interface = Null THEN {}
    ELSE objs[upfId].tun0Interface[1].assignedIPs
PoolRange == {HostIP(n) : n \in FirstHost..LastHost}

\* C1: at any time at most one step sequence (establishment or release) of a
\* terminal is in progress, suspended on a token or on a settling delay.
C1_OneSequencePerTerminal ==
    \A u \in UEIds : Cardinality(Running(procs, u)) <= 1

TableTransitions ==
    {<<STATES.IDLE, STATES.ESTABLISHING>>, <<STATES.RELEASED, STATES.ESTABLISHING>>,
     <<STATES.ESTABLISHING, STATES.ACTIVE>>, <<STATES.ESTABLISHING, STATES.IDLE>>,
     <<STATES.ACTIVE, STATES.RELEASING>>, <<STATES.RELEASING, STATES.RELEASED>>}
\* two table transitions made by one handler run (a first step that throws)
TwoTableTransitions ==
    {<<t1[1], t2[2]>> : <<t1, t2>> \in
        {tt \in TableTransitions \X TableTransitions : tt[1][2] = tt[2][1]}}

\* C3: every change of a terminal's session state is a transition of the
\* table: IDLE or RELEASED to ESTABLISHING, ESTABLISHING to ACTIVE or to IDLE,
\* ACTIVE to RELEASING, RELEASING to RELEASED.
C3_TableTransitionsOnly ==
    [][\A u \in UEIds :
        LET before == StateOf(sessions, u)
            after == StateOf(sessions', u)
        IN  \/ before = after
            \/ <<before, after>> \in TableTransitions
            \/ /\ EstablishStartThrows(u) \/ ReleaseStartThrows(u)
               /\ <<before, after>> \in TwoTableTransitions]_vars

\* C4: no two terminals whose sessions hold an assigned address hold the same
\* address.
C4_NoSharedAddress ==
    \A u1 \in DOMAIN sessions : \A u2 \in DOMAIN sessions :
        (u1 # u2 /\ sessions[u1].assignedIP # Null /\ sessions[u2].assignedIP # Null)
            => sessions[u1].assignedIP # sessions[u2].assignedIP

\* C5: whenever an establishment completes with the session ACTIVE, the
\* session's assignedIP is one of 10.0.0.2 .. 10.0.0.14 and the gateway pool's
\* mapping holds an entry with that address owned by the terminal.
C5_ActiveAddressInPool ==
    [][\A u \in UEIds : \A i \in Slots :
        EstablishComplete(u, i) =>
            /\ sessions'[u].state = STATES.ACTIVE
            /\ sessions'[u].assignedIP \in PoolRange
            /\ [ueId |-> u, ip |-> sessions'[u].assignedIP]
                   \in Pool(nfObj', procs[u][i].nfs[1].upf)]_vars

\* the addresses the next n calls of allocateUEIP on the pool return
RECURSIVE LaterAllocations(_, _, _, _)
LaterAllocations(objs, upfId, ueId, n) ==
    IF n = 0 THEN {}
    ELSE LET a == allocateUEIP(objs, upfId, ueId)
         IN  {a.ueIp} \cup LaterAllocations(a.objs, upfId, ueId, n - 1)

\* C6: when the release of an ACTIVE terminal has finished, the address the
\* terminal held is absent from the pool's mapping and a later allocateUEIP call
\* on that pool can return it.
C6_ReleasedAddressReusable ==
    [][\A u \in UEIds : \A i \in Slots :
        (ReleaseComplete(u, i) /\ sessions[u].assignedIP # Null
                               /\ sessions[u].upfId # NullId) =>
            LET held == sessions[u].assignedIP
                upfId == sessions[u].upfId
            IN  /\ \A a \in Pool(nfObj', upfId) : a.ip # held
                /\ held \in LaterAllocations(nfObj', upfId, u, LastHost)]_vars

\* a release call made on an ACTIVE session returns in this step
ReleaseReturns(u) ==
    \/ ReleasePending(u) /\ releasePDUSession(u) /\ returned'.op = "releasePDUSession"
    \/ \E i \in Slots : ReleaseStepThrows(u, i) \/ ReleaseComplete(u, i)

\* the end state of a release: nothing of the session is left, in the session
\* object, in the terminal's config or in the pool of a stored gateway
ReleasedClean(S, objs, ds, u) ==
    /\ S[u].state = STATES.RELEASED
    /\ S[u].pduSessionId = NullNum
    /\ S[u].assignedIP = Null
    /\ S[u].tunnelId = NullNum
    /\ S[u].upfId = NullId
    /\ objs[u].pduSession = Null
    /\ objs[u].tunInterface = Null
    /\ \A id \in StoredIds(ds) : \A a \in Pool(objs, id) : a.ueId # u

\* C7: every releasePDUSession call made while the session is ACTIVE ends with
\* the session RELEASED, every mapping entry of the terminal removed from the
\* pool, the session's id, address and tunnel fields null and pduSession and
\* tunInterface removed from the terminal's config, whether the steps succeed
\* or one throws.
C7_ReleaseAlwaysCleansUp ==
    [][\A u \in UEIds : ReleaseReturns(u) => ReleasedClean(sessions', nfObj', dataStore', u)]_vars

\* C8: when a step of an establishment throws, the session is IDLE and keeps no
\* partial state: assignedIP, tunnelId and upfId are null and the terminal's
\* config carries neither pduSession nor tunInterface.
C8_NoPartialStateOnThrow ==
    [][\A u \in UEIds :
        (EstablishStartThrows(u) \/ \E i \in Slots : EstablishStepThrows(u, i)) =>
            /\ sessions'[u].state = STATES.IDLE
            /\ sessions'[u].assignedIP = Null
            /\ sessions'[u].tunnelId = NullNum
            /\ sessions'[u].upfId = NullId
            /\ nfObj'[u].pduSession = Null
            /\ nfObj'[u].tunInterface = Null]_vars

\* C9: when validatePrerequisites fails inside establishPDUSession (session IDLE
\* or RELEASED) the call returns false, appends one ERROR record carrying the
\* reason, and leaves the session's state and fields, the pool's mapping and
\* counter, the terminal's config and the live tokens unchanged.
C9_InvalidEstablishHasNoEffect ==
    [][\A u \in UEIds :
        LET validation == validatePrerequisites(dataStore, nfObj, u)
        IN  (/\ StateOf(sessions, u) \in {STATES.IDLE, STATES.RELEASED}
             /\ ~validation.valid
             /\ establishPDUSession(u)) =>
                /\ returned' = Return("establishPDUSession", u, FALSE)
                /\ Len(logOut') = 1
                /\ logOut'[1].level = "ERROR"
                /\ logOut'[1].nodeId = u
                /\ logOut'[1].detail = validation.error
                /\ sessions' = getSession(sessions, u)
                /\ nfObj' = nfObj
                /\ packetAnimator' = packetAnimator
                /\ procs' = procs]_vars

\* an establishment has just been refused with the reason validation gave
C9_RefusedWithReason ==
    \E u \in UEIds :
        LET validation == validatePrerequisites(dataStore, nfObj, u)
        IN  /\ ~validation.valid
            /\ returned = Return("establishPDUSession", u, FALSE)
            /\ logOut = <<LogWith(u, "ERROR", "PDU session establishment failed",
                                  validation.error)>>
            /\ StateOf(sessions, u) \in {STATES.IDLE, STATES.RELEASED}

\* releasePDUSession(u) is called on an ACTIVE session whose terminal is in the
\* store and validatePrerequisites fails
ReleaseFailsValidation(u) ==
    /\ ReleasePending(u)
    /\ getNFById(dataStore, u) # Null
    /\ ~validatePrerequisites(dataStore, nfObj, u).valid
    /\ releasePDUSession(u)

CleanupFreesPool(S, objs, ds, u) ==
    /\ S[u].upfId # NullId
    /\ S[u].assignedIP # Null
    /\ getNFById(ds, S[u].upfId) # Null
    /\ objs[S[u].upfId].tun0Interface # Null

-----------------------------------------------------------------------------
(* Failure reporting *)

\* C11: every call of establishPDUSession or releasePDUSession that returns
\* false has appended at least one record for that terminal to the log stream.
C11_EveryFailureIsLogged ==
    (returned.op # "none" /\ returned.value = FALSE) =>
        \E k \in DOMAIN logOut : logOut[k].nodeId = returned.ueId

-----------------------------------------------------------------------------
(* Reachability and prerequisites on the edited topology *)

\* C12: areNFsConnected is symmetric: for every topology (nodes of any type,
\* links stored in either direction, bus attachments) and every pair of nodes
\* a, b, areNFsConnected(a, b) equals areNFsConnected(b, a).
C12_ReachabilitySymmetric ==
    \A a \in NFIds : \A b \in NFIds :
        areNFsConnected(dataStore, nfObj, a, b) = areNFsConnected(dataStore, nfObj, b, a)

\* the buses both nodes are attached to
CommonBuses(ds, a, b) ==
    {bc.busId : bc \in getBusConnectionsForNF(ds, a)} \cap
    {bc.busId : bc \in getBusConnectionsForNF(ds, b)}

\* C13: any two nodes attached to a common bus are reported connected by
\* areNFsConnected, with or without a direct link between them; in particular
\* each of two terminals on the bus of a session function reaches it.
C13_SharedBusConnects ==
    \A a \in NFIds : \A b \in NFIds :
        CommonBuses(dataStore, a, b) # {} => areNFsConnected(dataStore, nfObj, a, b)

\* both terminals and the session function are attached to the same bus, no
\* link joins a terminal to the session function, and without the bus
\* attachments neither terminal would reach it
C13_TerminalsOnSessionBus ==
    LET unattached == [dataStore EXCEPT !.busConnections = {}]
    IN  /\ CommonBuses(dataStore, "ue1", "smf1") \cap CommonBuses(dataStore, "ue2", "smf1") # {}
        /\ \A u \in UEIds :
             /\ ~\E c \in getConnectionsForNF(dataStore, u) :
                    c.sourceId = "smf1" \/ c.targetId = "smf1"
             /\ ~areNFsConnected(unattached, nfObj, u, "smf1")
             /\ areNFsConnected(dataStore, nfObj, u, "smf1")

\* an id the store has never held
UnknownIds == {"nf-unknown"}

\* C14: areNFsConnected(a, b) returns false, with no error raised, whenever a
\* or b is not a node of the store: an id it never held, or a node that was
\* deleted, its links and bus attachments removed with it.
C14_MissingNodeUnreachable ==
    \A a \in NFIds \cup UnknownIds : \A b \in NFIds \cup UnknownIds :
        (a \notin StoredIds(dataStore) \/ b \notin StoredIds(dataStore)) =>
            areNFsConnected(dataStore, nfObj, a, b) = FALSE

\* a node of the deployment has been deleted with its links and bus
\* attachments, and a node that reached it before the deletion is still stored
C14_DeletedNodeWasReachable ==
    \E id \in NFIds \ StoredIds(dataStore) : \E a \in StoredIds(dataStore) :
        /\ dataStore = removeNF(InitStore, id)
        /\ getConnectionsForNF(InitStore, id) # {}
        /\ areNFsConnected(InitStore, nfObj, a, id)
        /\ areNFsConnected(InitStore, nfObj, id, a)
        /\ ~areNFsConnected(dataStore, nfObj, a, id)
        /\ ~areNFsConnected(dataStore, nfObj, id, a)

\* the stored nodes of type t that are stable and in the subnet of terminal u
StableInSubnet(ds, objs, t, u) ==
    {id \in StoredIds(ds) :
        /\ objs[id].type = t
        /\ objs[id].status = "stable"
        /\ getNetworkFromIP(objs[id].ipAddress) = getNetworkFromIP(objs[u].ipAddress)}

\* the node of a non-empty set of stored nodes that comes first in the store
FirstStored(ds, ids) ==
    LET at(id) == CHOOSE i \in DOMAIN ds.nfs : ds.nfs[i] = id
    IN  CHOOSE id \in ids : \A other \in ids : at(id) <= at(other)

\* the prerequisites of an establishment for u, in the order they are stated,
\* each with the reason reported when it is the first that fails
Prerequisites(ds, objs, u) ==
    LET isUE == u \in StoredIds(ds) /\ objs[u].type = "UE"
        amfs == StableInSubnet(ds, objs, "AMF", u)
        smfs == StableInSubnet(ds, objs, "SMF", u)
        upfs == StableInSubnet(ds, objs, "UPF", u)
    IN  << [holds |-> isUE, reason |-> "UE not found"],
           [holds |-> isUE /\ objs[u].subscriberImsi # NullId,
            reason |-> "UE is not registered (no IMSI configured)"],
           [holds |-> isUE /\ amfs # {},
            reason |-> "No stable AMF found in same subnet"],
           [holds |-> isUE /\ amfs # {}
                        /\ areNFsConnected(ds, objs, u, FirstStored(ds, amfs)),
            reason |-> "UE is not connected to AMF (directly or via gNB)"],
           [holds |-> isUE /\ smfs # {},
            reason |-> "No stable SMF found in same subnet"],
           [holds |-> isUE /\ upfs # {},
            reason |-> "No stable UPF found in same subnet"],
           [holds |-> isUE /\ upfs # {}
                        /\ objs[FirstStored(ds, upfs)].tun0Interface # Null,
            reason |-> "UPF does not have tun0 interface configured"] >>

FailingPrerequisites(ds, objs, u) ==
    {k \in DOMAIN Prerequisites(ds, objs, u) : ~Prerequisites(ds, objs, u)[k].holds}

\* what validatePrerequisites has to return for u
ExpectedValidation(ds, objs, u) ==
    LET failing == FailingPrerequisites(ds, objs, u)
    IN  IF failing # {}
        THEN [valid |-> FALSE,
              error |-> Prerequisites(ds, objs, u)[
                            CHOOSE k \in failing : \A j \in failing : k <= j].reason,
              nfs |-> Null]
        ELSE [valid |-> TRUE, error |-> NullId,
              nfs |-> <<[ue |-> u,
                         amf |-> FirstStored(ds, StableInSubnet(ds, objs, "AMF", u)),
                         smf |-> FirstStored(ds, StableInSubnet(ds, objs, "SMF", u)),
                         upf |-> FirstStored(ds, StableInSubnet(ds, objs, "UPF", u))]>>]

\* C15: validatePrerequisites evaluates its clauses in the fixed order (the id
\* is a stored terminal; it has subscriber credentials; a stable access
\* function exists in its subnet; that function is reachable; a stable session
\* function exists in its subnet; a stable gateway exists in its subnet; the
\* gateway has a tun0 pool) and returns valid = false with the reason of the
\* first clause that fails and nfs = null, or valid = true with the four nodes;
\* a refused establishment logs that reason.
C15_FirstFailingClauseReported ==
    /\ \A u \in NFIds \cup UnknownIds :
           validatePrerequisites(dataStore, nfObj, u) = ExpectedValidation(dataStore, nfObj, u)
    /\ (returned.op = "establishPDUSession" /\ returned.value = FALSE) =>
           /\ Len(logOut) = 1
           /\ logOut[1].detail = ExpectedValidation(dataStore, nfObj, returned.ueId).error

\* an establishment has just been refused for a terminal whose gateway has no
\* tun0 pool and that fails an earlier clause as well: the reason logged is the
\* earlier clause's
C15_RefusedForEarlierClause ==
    \E u \in UEIds :
        /\ returned = Return("establishPDUSession", u, FALSE)
        /\ StableInSubnet(dataStore, nfObj, "UPF", u) # {}
        /\ 7 \in FailingPrerequisites(dataStore, nfObj, u)
        /\ Cardinality(FailingPrerequisites(dataStore, nfObj, u)) >= 2
        /\ logOut[1].detail # "UPF does not have tun0 interface configured"
        /\ logOut[1].detail = ExpectedValidation(dataStore, nfObj, u).error

-----------------------------------------------------------------------------
(* Token paths on the edited topology *)

\* the point of a bus nearest to a node: the node's coordinate along the bus,
\* the bus's coordinate across it
Projection(nf, bus) ==
    IF busObj[bus].orientation = "horizontal"
    THEN [x |-> nf.position.x, y |-> busObj[bus].position.y]
    ELSE [x |-> busObj[bus].position.x, y |-> nf.position.y]

\* distance of two points of a bus along the bus's axis
AlongBus(bus, p, q) ==
    IF busObj[bus].orientation = "horizontal" THEN Abs(p.x - q.x) ELSE Abs(p.y - q.y)

\* the path runs over the bus: both projections, in order, next to the end
\* points, with one more waypoint between them, a point of the bus, exactly when
\* the projections are more than the threshold apart
RoutedOverBus(path, source, target, bus) ==
    LET ps == Projection(source, bus)
        pt == Projection(target, bus)
        far == AlongBus(bus, ps, pt) > 10
    IN  /\ Len(path) = IF far THEN 5 ELSE 4
        /\ path[2] = ps
        /\ path[Len(path) - 1] = pt
        /\ far => /\ AlongBus(bus, path[3], pt) = 0
                  /\ Projection([position |-> path[3]], bus) = path[3]

\* C20: calculatePath returns at least two points, the first the source's
\* position and the last the target's: exactly [source, target] when the two
\* nodes share no bus, and over a shared bus [source, projection of the source,
\* a slide waypoint only if the projections differ along the bus's axis by more
\* than 10 px, projection of the target, target].
C20_PathShape ==
    \A a \in NFIds : \A b \in NFIds :
        LET path == calculatePath(dataStore, nfObj, a, b)
            here == [x |-> nfObj[a].position.x, y |-> nfObj[a].position.y]
            there == [x |-> nfObj[b].position.x, y |-> nfObj[b].position.y]
        IN  /\ Len(path) >= 2
            /\ path[1] = here
            /\ path[Len(path)] = there
            /\ IF CommonBuses(dataStore, a, b) = {} THEN path = <<here, there>>
               ELSE \E bus \in CommonBuses(dataStore, a, b) :
                        RoutedOverBus(path, nfObj[a], nfObj[b], bus)

\* the topology has a pair of nodes with no common bus, a pair on a bus with
\* projections exactly 10 px apart (no slide waypoint) and a pair on a bus with
\* projections further apart (slide waypoint)
C20_DirectNearAndFarPairs ==
    /\ \E a \in StoredIds(dataStore) : \E b \in StoredIds(dataStore) :
           /\ a # b
           /\ CommonBuses(dataStore, a, b) = {}
           /\ Len(calculatePath(dataStore, nfObj, a, b)) = 2
    /\ \E a \in StoredIds(dataStore) : \E b \in StoredIds(dataStore) :
           \E bus \in CommonBuses(dataStore, a, b) :
               /\ AlongBus(bus, Projection(nfObj[a], bus), Projection(nfObj[b], bus)) = 10
               /\ Len(calculatePath(dataStore, nfObj, a, b)) = 4
    /\ \E a \in StoredIds(dataStore) : \E b \in StoredIds(dataStore) :
           \E bus \in CommonBuses(dataStore, a, b) :
               /\ AlongBus(bus, Projection(nfObj[a], bus), Projection(nfObj[b], bus)) > 10
               /\ Len(calculatePath(dataStore, nfObj, a, b)) = 5

-----------------------------------------------------------------------------
(* The address pool in isolation *)

\* C17: from an empty pool with counter 2, the first thirteen allocateUEIP
\* calls return 10.0.0.2 .. 10.0.0.14 in order (the k-th call 10.0.0.(k+1), all
\* distinct), each recorded in the mapping with the counter moved past it; the
\* fourteenth and every later call return the fixed fallback 10.0.0.2 and leave
\* the mapping and the counter unchanged.
C17_ThirteenThenFallback ==
    [][\A u \in UEIds :
        AllocateAddress(u) =>
            LET k == Cardinality(Pool(nfObj, "upf1")) + 1
            IN  IF k <= 13
                THEN /\ returned'.value = <<10, 0, 0, k + 1>>
                     /\ \A a \in Pool(nfObj, "upf1") : a.ip # returned'.value
                     /\ Pool(nfObj', "upf1") =
                            Pool(nfObj, "upf1") \cup {[ueId |-> u, ip |-> <<10, 0, 0, k + 1>>]}
                     /\ nfObj'["upf1"].tun0Interface[1].nextAvailableIP = k + 2
                ELSE /\ returned'.value = <<10, 0, 0, 2>>
                     /\ nfObj' = nfObj]_vars

\* a call has just returned the fallback from a pool that holds thirteen
\* entries, one for each host from 10.0.0.2 to 10.0.0.14
C17_FallbackAfterThirteen ==
    /\ returned.op = "allocateUEIP"
    /\ returned.value = FallbackIP
    /\ {a.ip : a \in Pool(nfObj, "upf1")} = PoolRange
    /\ Cardinality(Pool(nfObj, "upf1")) = 13
    /\ nfObj["upf1"].tun0Interface[1].nextAvailableIP = 15

-----------------------------------------------------------------------------
(* Tokens and the scheduler *)

Continuations == UEIds \X Slots

\* the live tokens whose continuation is c
TokensOfContinuation(A, c) == {k \in DOMAIN A.packets : A.packets[k].onComplete = c}

\* the continuation c is invoked in this step: the call suspended on its token
\* resumes
Invoked(c) ==
    /\ procs[c[1]][c[2]].phase = "flight"
    /\ procs'[c[1]][c[2]].phase # "flight"

\* the token of c leaves the live set in this step
Removed(c) ==
    /\ TokensOfContinuation(packetAnimator, c) # {}
    /\ TokensOfContinuation(packetAnimator', c) = {}

\* C18: the continuation of a token created by sendPacket is invoked at most
\* once, exactly on the tick at which the token is removed from the live set
\* after it reached its final waypoint; a token never stays live after its
\* continuation fired (a call has a live token exactly while it is suspended on
\* it, and never more than one).
C18_ContinuationOnRemovalOnly ==
    [][\A c \in Continuations :
        /\ Cardinality(TokensOfContinuation(packetAnimator, c)) <= 1
        /\ TokensOfContinuation(packetAnimator, c) # {} <=> procs[c[1]][c[2]].phase = "flight"
        /\ Invoked(c) <=> Removed(c)
        /\ Removed(c) =>
             /\ TrackedFrame
             /\ \A k \in TokensOfContinuation(packetAnimator, c) :
                    packetAnimator.packets[k].currentSegment
                        >= Len(packetAnimator.packets[k].path) - 1
        /\ Cardinality(TokensOfContinuation(packetAnimator', c)) <= 1
        /\ TokensOfContinuation(packetAnimator', c) # {} <=> procs'[c[1]][c[2]].phase = "flight"
      ]_vars

\* a tick has just removed the first token of an establishment and resumed the
\* call, which now sits in its settling delay with no token live
C18_FirstTokenDelivered ==
    \E c \in Continuations :
        /\ procs[c[1]][c[2]].kind = "establish"
        /\ procs[c[1]][c[2]].step = 1
        /\ procs[c[1]][c[2]].phase = "delay"
        /\ packetAnimator.packets = <<>>
        /\ returned = NoReturn
        /\ logOut = <<>>

\* how far a token has travelled, in progress units
Travelled(p) == p.currentSegment * One + p.segmentProgress

\* C19: the scheduler is not ticking (isRunning is false) whenever the live
\* set is empty after a tick processed it, and every sendPacket that adds a
\* token leaves the scheduler ticking (isRunning true, a frame requested), so
\* that every tick moves each live token forward or removes it, with no restart
\* from outside.
C19_TicksWhileTokensLive ==
    [][/\ packetAnimator'.packets = <<>> => ~packetAnimator'.isRunning
       /\ packetAnimator'.packets # <<>> =>
              /\ packetAnimator'.isRunning
              /\ packetAnimator'.tracked
       /\ TrackedFrame /\ packetAnimator.isRunning =>
              \A k \in DOMAIN packetAnimator.packets :
                  LET p == packetAnimator.packets[k]
                      after == TokensOfContinuation(packetAnimator', p.onComplete)
                  IN  \A j \in after :
                          Travelled(packetAnimator'.packets[j]) > Travelled(p)
      ]_vars

\* the scheduler stopped after the first token of a sequence and was started
\* again by the sendPacket of the second, which is live with a frame requested
C19_RestartedBySecondToken ==
    \E c \in Continuations :
        /\ procs[c[1]][c[2]].step = 2
        /\ procs[c[1]][c[2]].phase = "flight"
        /\ Len(packetAnimator.packets) = 1
        /\ packetAnimator.isRunning
        /\ packetAnimator.tracked

-----------------------------------------------------------------------------
(* Progress of an establishment *)

\* the session of u is ACTIVE with an address of the pool's range, and the
\* terminal's config has the tunnel interface for it: its address the
\* session's, its gateway the one the pool is configured with
ActiveWithTunnel(u) ==
    /\ StateOf(sessions, u) = STATES.ACTIVE
    /\ sessions[u].assignedIP \in {<<10, 0, 0, n>> : n \in 2..14}
    /\ sessions[u].upfId # NullId
    /\ nfObj[u].tunInterface # Null
    /\ nfObj[u].tunInterface[1].ipAddress = sessions[u].assignedIP
    /\ nfObj[sessions[u].upfId].tun0Interface # Null
    /\ nfObj[u].tunInterface[1].gateway = nfObj[sessions[u].upfId].tun0Interface[1].gatewayIP

\* C16: on a valid topology, with no step failing and no other lifecycle
\* interfering, an establishPDUSession call that has started its sequence
\* eventually ends with the session ACTIVE, an address in 10.0.0.2 .. 10.0.0.14
\* and a tunnel interface in the terminal's config whose ipAddress is that
\* address and whose gateway is the pool's configured gateway; an ACTIVE session
\* always has them.
C16_EstablishmentCompletes ==
    /\ \A u \in UEIds : (StateOf(sessions, u) = STATES.ESTABLISHING) ~> ActiveWithTunnel(u)
    /\ [](\A u \in UEIds : StateOf(sessions, u) = STATES.ACTIVE => ActiveWithTunnel(u))

\* both terminals have gone through their establishment and are ACTIVE, the
\* call of one of them having just returned true
C16_BothEstablished ==
    /\ \A u \in UEIds : ActiveWithTunnel(u)
    /\ \E u \in UEIds : returned = Return("establishPDUSession", u, TRUE)
    /\ started = 2

-----------------------------------------------------------------------------
(* Calls that have nothing to do *)

\* C21: establishPDUSession called while the session is ACTIVE is a no-op: it
\* logs an 'already active' record for the terminal and leaves the session's
\* state and fields, the pool's mapping and counter, the terminal's config and
\* the live tokens unchanged.
C21_EstablishOnActiveIsNoOp ==
    [][\A u \in UEIds :
        (StateOf(sessions, u) = STATES.ACTIVE /\ establishPDUSession(u)) =>
            /\ logOut' = <<Log(u, "WARNING", "PDU session already active")>>
            /\ sessions' = sessions
            /\ nfObj' = nfObj
            /\ packetAnimator' = packetAnimator
            /\ procs' = procs
            /\ dataStore' = dataStore]_vars

\* the call has just returned on an ACTIVE session that holds its address, its
\* pool entry and its tunnel interface
C21_CalledOnActive ==
    \E u \in UEIds :
        /\ returned = Return("establishPDUSession", u, TRUE)
        /\ logOut = <<Log(u, "WARNING", "PDU session already active")>>
        /\ sessions[u].state = STATES.ACTIVE
        /\ sessions[u].assignedIP # Null
        /\ \E a \in Pool(nfObj, sessions[u].upfId) : a.ueId = u
        /\ nfObj[u].tunInterface # Null

\* C22: releasePDUSession called in a session state other than ACTIVE (IDLE,
\* ESTABLISHING, RELEASING, RELEASED) returns false, logs a 'nothing to
\* release' record for the terminal and leaves the session's state and fields,
\* the pool, the terminal's config and the live tokens unchanged.
C22_ReleaseOnInactiveRefused ==
    [][\A u \in UEIds :
        (StateOf(sessions, u) # STATES.ACTIVE /\ releasePDUSession(u)) =>
            /\ returned' = Return("releasePDUSession", u, FALSE)
            /\ logOut' = <<Log(u, "WARNING", "No active PDU session to release")>>
            /\ sessions' = getSession(sessions, u)
            /\ StateOf(sessions', u) = StateOf(sessions, u)
            /\ nfObj' = nfObj
            /\ packetAnimator' = packetAnimator
            /\ procs' = procs
            /\ dataStore' = dataStore]_vars

\* the call has just been refused while an establishment of the terminal is
\* under way, its address already in the pool
C22_RefusedWhileEstablishing ==
    \E u \in UEIds :
        /\ returned = Return("releasePDUSession", u, FALSE)
        /\ logOut = <<Log(u, "WARNING", "No active PDU session to release")>>
        /\ sessions[u].state = STATES.ESTABLISHING
        /\ SequencesOf(procs, u, "establish") # {}
        /\ \E a \in Pool(nfObj, "upf1") : a.ueId = u

-----------------------------------------------------------------------------
(* The sessions map *)

SessionStates ==
    {STATES.IDLE, STATES.ESTABLISHING, STATES.ACTIVE, STATES.RELEASING, STATES.RELEASED}

\* C23: for every terminal at most one Session object exists per terminal id:
\* the map holds one object under each id, that object's own ueId, it is never
\* removed, and getSession returns it and never replaces it (a call that looks
\* an existing session up leaves its state and fields as they are); its state
\* is at every reachable state one of IDLE, ESTABLISHING, ACTIVE, RELEASING,
\* RELEASED.
C23_OneSessionPerTerminal ==
    [][/\ DOMAIN sessions \subseteq DOMAIN sessions'
       /\ DOMAIN sessions' \subseteq UEIds
       /\ \A u \in DOMAIN sessions' :
              /\ sessions'[u].ueId = u
              /\ sessions'[u].state \in SessionStates
       /\ \A u \in DOMAIN sessions :
              /\ getSession(sessions, u) = sessions
              /\ (EstablishAlreadyActive(u) \/ EstablishInProgress(u) \/ ReleaseNotActive(u)) =>
                     sessions'[u] = sessions[u]
       /\ \A u \in UEIds \ DOMAIN sessions :
              getSession(sessions, u)[u] = NewSession(u)
      ]_vars

\* both terminals have a session, one ACTIVE and one being established, and a
\* call has just looked the ACTIVE one up
C23_TwoSessionsLookedUp ==
    \E u \in UEIds : \E v \in UEIds :
        /\ DOMAIN sessions = UEIds
        /\ sessions[u].state = STATES.ACTIVE
        /\ sessions[u].pduSessionId # NullNum
        /\ sessions[v].state = STATES.ESTABLISHING
        /\ returned.op # "none"
        /\ returned.ueId = u

-----------------------------------------------------------------------------
(* One-click deployment of the core *)

\* getCoreOneClickTopology(): the snapshot, in the order of its arrays
CoreNodes ==
    <<"nrf", "amf", "smf", "upf", "ausf", "ext-dn", "udm", "pcf", "nssf", "udr",
      "mysql", "gnb", "ue">>
CoreIds == {CoreNodes[n] : n \in DOMAIN CoreNodes}
CoreLinks ==
    <<[sourceId |-> "upf", targetId |-> "smf"],
      [sourceId |-> "ext-dn", targetId |-> "upf"],
      [sourceId |-> "udm", targetId |-> "nrf"],
      [sourceId |-> "mysql", targetId |-> "udr"],
      [sourceId |-> "gnb", targetId |-> "amf"],
      [sourceId |-> "gnb", targetId |-> "upf"],
      [sourceId |-> "ue", targetId |-> "gnb"],
      [sourceId |-> "ue", targetId |-> "amf"]>>
CoreBuses == <<"bus1">>
CoreBusConnections ==
    <<[nfId |-> "nrf", busId |-> "bus1"], [nfId |-> "amf", busId |-> "bus1"],
      [nfId |-> "smf", busId |-> "bus1"], [nfId |-> "ausf", busId |-> "bus1"],
      [nfId |-> "udm", busId |-> "bus1"], [nfId |-> "pcf", busId |-> "bus1"],
      [nfId |-> "nssf", busId |-> "bus1"], [nfId |-> "udr", busId |-> "bus1"]>>
\* the node objects of the snapshot
CoreNFs ==
    [id \in CoreIds |->
        [type |-> CASE id = "nrf" -> "NRF" [] id = "amf" -> "AMF" [] id = "smf" -> "SMF"
                    [] id = "upf" -> "UPF" [] id = "ausf" -> "AUSF" [] id = "ext-dn" -> "ext-dn"
                    [] id = "udm" -> "UDM" [] id = "pcf" -> "PCF" [] id = "nssf" -> "NSSF"
                    [] id = "udr" -> "UDR" [] id = "mysql" -> "MySQL" [] id = "gnb" -> "gNB"
                    [] OTHER -> "UE",
         status |-> "stable"]]

Range(q) == {q[n] : n \in DOMAIN q}

\* dataStore.clearAll()
clearAll(ds) == [nfs |-> <<>>, connections |-> {}, busConnections |-> {}, buses |-> {}]
\* dataStore.addBus(bus)
addBus(ds, busId) == [ds EXCEPT !.buses = @ \cup {busId}]
\* dataStore.addNF(nf): the array of nodes grows by one
addNF(ds, id) == [ds EXCEPT !.nfs = Append(@, id)]

\* topology.buses.forEach(bus => dataStore.addBus(bus))
RECURSIVE addBuses(_, _)
addBuses(ds, buses) ==
    IF buses = <<>> THEN ds ELSE addBuses(addBus(ds, Head(buses)), Tail(buses))

\* topology.busConnections.find(bc => bc.nfId === nf.id): the first attachment
\* of the node in the snapshot, or none
FirstBusConnection(id) ==
    LET found == SelectSeq(CoreBusConnections, LAMBDA bc : bc.nfId = id)
    IN  IF found = <<>> THEN Null ELSE <<Head(found)>>

\* topology.connections.filter(c => c.sourceId === nf.id)
relevantConnections(id) == SelectSeq(CoreLinks, LAMBDA c : c.sourceId = id)

\* addNF(nf) and the node's bus attachment, up to the sleep(STEP_DELAY)
DeployNF(ds, id) ==
    LET withNF == addNF(ds, id)
        busConn == FirstBusConnection(id)
    IN  IF busConn = Null THEN withNF
        ELSE addBusConnection(withNF, busConn[1].nfId, busConn[1].busId)

\* the delays of the sequence, in units of 500 ms: sleep(1000) after the
\* buses, sleep(STEP_DELAY) after a node, sleep(500) after a link
BusDelay == 2
StepDelay == 3
LinkDelay == 1

\* a call of deployCoreSequence: where it is suspended (pc), the node it has
\* deployed last (k), the next of that node's links to look at (j), and the
\* time left until its timer fires (wake)
DeployRuns == 1..MaxDeploys
NoDeploy == [pc |-> "none", k |-> 0, j |-> 1, wake |-> 0]

\* the topologies a deployment starts from: an empty canvas, a canvas somebody
\* has drawn on, and the core deployed before
DeployStores ==
    LET empty == clearAll(<<>>)
    IN  {empty,
         [nfs |-> <<"amf", "ue">>, connections |-> {[sourceId |-> "ue", targetId |-> "amf"]},
          busConnections |-> {[nfId |-> "amf", busId |-> "bus2"]}, buses |-> {"bus2"}],
         [nfs |-> CoreNodes, connections |-> Range(CoreLinks),
          busConnections |-> Range(CoreBusConnections), buses |-> Range(CoreBuses)]}

DeployInit ==
    /\ dataStore \in DeployStores
    /\ nfObj = CoreNFs
    /\ sessions = <<>>
    /\ procs = [r \in DeployRuns |-> NoDeploy]
    /\ packetAnimator = NewAnimator
    /\ logOut = <<>>
    /\ returned = NoReturn
    /\ incidents = 0
    /\ started = 0
    /\ pduPanel = NoPanel

\* a click on Deploy Core, confirmed: the call is suspended at the fetch of
\* the log file
DeployClick(r) ==
    /\ procs[r].pc = "none"
    /\ \A q \in DeployRuns : q < r => procs[q].pc # "none"
    /\ procs' = [procs EXCEPT ![r].pc = "fetch"]
    /\ started' = started + 1
    /\ UNCHANGED pduPanel
    /\ logOut' = <<>>
    /\ returned' = NoReturn
    /\ UNCHANGED <<dataStore, nfObj, sessions, packetAnimator, incidents>>

\* after the fetch: the store and the log are cleared and the buses of the
\* snapshot added; the call is suspended at sleep(1000)
DeployClear(r) ==
    /\ procs[r].pc = "fetch"
    /\ dataStore' = addBuses(clearAll(dataStore), CoreBuses)
    /\ procs' = [procs EXCEPT ![r] = [pc |-> "run", k |-> 0, j |-> 1, wake |-> BusDelay]]
    /\ logOut' = <<Log("system", "INFO", "Starting 5G Core Deployment Sequence..."),
                   Log("system", "INFO", "Deployed Service Bus")>>
    /\ returned' = NoReturn
    /\ UNCHANGED <<nfObj, sessions, packetAnimator, incidents, started, pduPanel>>

\* indexes, from j on, of the links going out of node k whose two ends are in
\* the store
AddableLinks(ds, k, j) ==
    IF k = 0 THEN {}
    ELSE LET rel == relevantConnections(CoreNodes[k])
         IN  {m \in j..Len(rel) : /\ getNFById(ds, rel[m].sourceId) # Null
                                  /\ getNFById(ds, rel[m].targetId) # Null}

\* a timer of the run fires inside the loop over the links of node k: the next
\* link with both ends stored is added; the call is suspended at sleep(500)
DeployLink(r) ==
    /\ procs[r].pc = "run"
    /\ procs[r].wake = 0
    /\ AddableLinks(dataStore, procs[r].k, procs[r].j) # {}
    /\ LET k == procs[r].k
           rel == relevantConnections(CoreNodes[k])
           m == CHOOSE a \in AddableLinks(dataStore, k, procs[r].j) :
                    \A b \in AddableLinks(dataStore, k, procs[r].j) : a <= b
       IN  /\ dataStore' = addConnection(dataStore, rel[m].sourceId, rel[m].targetId)
           /\ procs' = [procs EXCEPT ![r].j = m + 1, ![r].wake = LinkDelay]
    /\ logOut' = <<>>
    /\ returned' = NoReturn
    /\ UNCHANGED <<nfObj, sessions, packetAnimator, incidents, started, pduPanel>>

\* a timer of the run fires and no link of node k is left to add: the next
\* node of the snapshot is added with its bus attachment; the call is
\* suspended at sleep(STEP_DELAY)
DeployNode(r) ==
    /\ procs[r].pc = "run"
    /\ procs[r].wake = 0
    /\ AddableLinks(dataStore, procs[r].k, procs[r].j) = {}
    /\ procs[r].k < Len(CoreNodes)
    /\ LET id == CoreNodes[procs[r].k + 1]
       IN  /\ dataStore' = DeployNF(dataStore, id)
           /\ logOut' = <<LogWith(id, "INFO", "deployed", CoreNFs[id].type)>>
    /\ procs' = [procs EXCEPT ![r].k = @ + 1, ![r].j = 1, ![r].wake = StepDelay]
    /\ returned' = NoReturn
    /\ UNCHANGED <<nfObj, sessions, packetAnimator, incidents, started, pduPanel>>

\* a timer of the run fires after the last node and its links: the call
\* completes
DeployComplete(r) ==
    /\ procs[r].pc = "run"
    /\ procs[r].wake = 0
    /\ AddableLinks(dataStore, procs[r].k, procs[r].j) = {}
    /\ procs[r].k = Len(CoreNodes)
    /\ procs' = [procs EXCEPT ![r].pc = "done"]
    /\ logOut' = <<Log("system", "SUCCESS", "5G Core Deployment Completed Successfully")>>
    /\ returned' = Return("deployCoreSequence", NullId, TRUE)
    /\ UNCHANGED <<dataStore, nfObj, sessions, packetAnimator, incidents, started, pduPanel>>

\* 500 ms pass and no timer of a deployment is due
DeployTick ==
    /\ \E r \in DeployRuns : procs[r].pc = "run"
    /\ \A r \in DeployRuns : procs[r].pc = "run" => procs[r].wake > 0
    /\ procs' = [r \in DeployRuns |->
                    IF procs[r].pc = "run" THEN [procs[r] EXCEPT !.wake = @ - 1] ELSE procs[r]]
    /\ logOut' = <<>>
    /\ returned' = NoReturn
    /\ UNCHANGED <<dataStore, nfObj, sessions, packetAnimator, incidents, started, pduPanel>>

DeployNext ==
    \/ \E r \in DeployRuns : DeployClick(r)
    \/ \E r \in DeployRuns : DeployClear(r)
    \/ \E r \in DeployRuns : DeployLink(r)
    \/ \E r \in DeployRuns : DeployNode(r)
    \/ \E r \in DeployRuns : DeployComplete(r)
    \/ DeployTick

DeploySpec == DeployInit /\ [][DeployNext]_vars

\* the store holds everything the snapshot lists
HoldsSnapshot(ds) ==
    /\ Range(CoreBuses) \subseteq ds.buses
    /\ CoreIds \subseteq StoredIds(ds)
    /\ Range(CoreBusConnections) \subseteq ds.busConnections
    /\ Range(CoreLinks) \subseteq ds.connections

\* the nodes stored are the first nodes of the snapshot, each before the
\* nodes that follow it in the snapshot
InSnapshotOrder(ds) ==
    /\ \E m \in 0..Len(CoreNodes) : StoredIds(ds) = {CoreNodes[n] : n \in 1..m}
    /\ \A a, b \in DOMAIN CoreNodes :
           a < b /\ CoreNodes[b] \in StoredIds(ds) =>
               \E x, y \in DOMAIN ds.nfs :
                   x < y /\ ds.nfs[x] = CoreNodes[a] /\ ds.nfs[y] = CoreNodes[b]

\* C24: a deployment clears the store and adds the buses of the snapshot
\* before any node; from then on the stored nodes are the first nodes of the
\* snapshot in its order, each stored node has its bus attachment and no other
\* node has one, every stored link has both ends stored, and when a run
\* completes the store holds every bus, node, bus attachment and link of the
\* snapshot.
C24_DeployInSnapshotOrder ==
    [][/\ \A r \in DeployRuns : DeployClear(r) =>
              /\ dataStore'.buses = Range(CoreBuses)
              /\ dataStore'.nfs = <<>>
              /\ dataStore'.connections = {}
              /\ dataStore'.busConnections = {}
       /\ (\E r \in DeployRuns : procs'[r].pc \in {"run", "done"}) =>
              /\ Range(CoreBuses) \subseteq dataStore'.buses
              /\ InSnapshotOrder(dataStore')
              /\ dataStore'.busConnections =
                     {bc \in Range(CoreBusConnections) : bc.nfId \in StoredIds(dataStore')}
              /\ \A c \in dataStore'.connections :
                     /\ c \in Range(CoreLinks)
                     /\ {c.sourceId, c.targetId} \subseteq StoredIds(dataStore')
       /\ \A r \in DeployRuns :
              procs[r].pc = "run" /\ procs'[r].pc = "done" => HoldsSnapshot(dataStore')]_vars

-----------------------------------------------------------------------------
(* Connection Management mode: the 13 step buttons *)

\* source and target of the token of a step; steps 5 and 7 are internal
\* processing, a delay of 500 ms and no token
StepToken(data, stepNum) ==
    CASE stepNum \in {1, 3} -> [src |-> data.ueId, tgt |-> data.gnb]
      [] stepNum = 2  -> [src |-> data.gnb, tgt |-> data.ueId]
      [] stepNum = 4  -> [src |-> data.ueId, tgt |-> data.amf]
      [] stepNum = 6  -> [src |-> data.amf, tgt |-> data.smf]
      [] stepNum = 8  -> [src |-> data.smf, tgt |-> data.upf]
      [] stepNum = 9  -> [src |-> data.upf, tgt |-> data.smf]
      [] stepNum = 10 -> [src |-> data.smf, tgt |-> data.amf]
      [] stepNum = 11 -> [src |-> data.amf, tgt |-> data.gnb]
      [] stepNum = 12 -> [src |-> data.gnb, tgt |-> data.amf]
      [] OTHER        -> [src |-> data.amf, tgt |-> data.ueId]
InternalSteps == {5, 7}

\* a suspended executePDUStep call: the step it runs and what it waits for
NoStep == [step |-> 0, phase |-> "none"]

\* the loop of resetPDUSteps over the buttons: button 1 keeps its disabled
\* attribute
ResetButtons(panel) ==
    [panel EXCEPT !.completed = {}, !.active = {},
                  !.disabled = @ \cup (PDUSteps \ {1}), !.pduCurrentStep = 0]

\* the first stable terminal of the store, or none
FirstStableUE(ds, objs) ==
    LET at == {n \in DOMAIN ds.nfs : objs[ds.nfs[n]].type = "UE" /\ objs[ds.nfs[n]].status = "stable"}
    IN  IF at = {} THEN NullId ELSE ds.nfs[CHOOSE n \in at : \A m \in at : n <= m]

\* a stable radio unit linked to the terminal, or none
LinkedGNB(ds, objs, ueId) ==
    LET others == {IF c.sourceId = ueId THEN c.targetId ELSE c.sourceId :
                       c \in getConnectionsForNF(ds, ueId)}
        gnbs == {id \in others : /\ getNFById(ds, id) # Null
                                  /\ objs[id].type = "gNB" /\ objs[id].status = "stable"}
    IN  IF gnbs = {} THEN NullId ELSE CHOOSE id \in gnbs : TRUE

\* preparePDUSession(): on a topology that validates, the session data are
\* replaced and resetPDUSteps() is called, which calls preparePDUSession()
\* again while the mode is on; the two call each other until the stack is
\* exhausted, so the statement that enables step 1 after the call is never
\* reached. What is left is the new data and the buttons reset.
preparePDUSession(panel, ds, objs, sid) ==
    LET ueId == FirstStableUE(ds, objs)
        gnb == IF ueId = NullId THEN NullId ELSE LinkedGNB(ds, objs, ueId)
        validation == IF gnb = NullId THEN Invalid("No gNB found connected to UE")
                      ELSE validatePrerequisites(ds, objs, ueId)
    IN  IF ~validation.valid THEN panel
        ELSE ResetButtons(
                 [panel EXCEPT !.pduSessionData =
                     <<[ueId |-> ueId, amf |-> validation.nfs[1].amf,
                        smf |-> validation.nfs[1].smf, upf |-> validation.nfs[1].upf,
                        gnb |-> gnb, pduSessionId |-> sid, assignedIP |-> Null,
                        tunnelId |-> NullNum]>>])

\* resetPDUSteps()
resetPDUSteps(panel, ds, objs, sid) ==
    LET cleared == ResetButtons(panel)
    IN  IF cleared.pduSessionMode THEN preparePDUSession(cleared, ds, objs, sid) ELSE cleared

\* finalizePDUSession(): the terminal's config, from the session data the
\* panel holds now
finalizePDUSession(panel, objs) ==
    LET data == panel.pduSessionData[1]
        tun0 == objs[data.upf].tun0Interface
    IN  [objs EXCEPT
            ![data.ueId].pduSession = <<[sessionId |-> data.pduSessionId, upfId |-> data.upf,
                                         assignedIP |-> data.assignedIP,
                                         status |-> "established"]>>,
            ![data.ueId].pduSessionState = STATES.ACTIVE,
            ![data.ueId].cmState = "CONNECTED",
            ![data.ueId].tunInterface = <<[ipAddress |-> data.assignedIP,
                                           gateway |-> IF tun0 = Null THEN DefaultGatewayIP
                                                       ELSE tun0[1].gatewayIP]>>]

\* executePDUStep after `await this.executeStep(stepNum)`: step 13 finalizes,
\* the button is marked completed and the next one enabled
AfterStep(panel, objs, stepNum) ==
    [panel |-> [panel EXCEPT !.active = @ \ {stepNum},
                             !.completed = @ \cup {stepNum},
                             !.disabled = IF stepNum < 13 THEN @ \ {stepNum + 1} ELSE @,
                             !.pduCurrentStep = stepNum],
     objs |-> IF stepNum = 13 THEN finalizePDUSession(panel, objs) ELSE objs]

\* the calls whose tokens a pass of updatePackets completes resume in the
\* order of the packets
RECURSIVE ResumeSteps(_, _, _, _)
ResumeSteps(panel, objs, P, done) ==
    IF done = <<>> THEN [panel |-> panel, objs |-> objs, procs |-> P]
    ELSE LET i == Head(done)
             r == AfterStep(panel, objs, P[i].step)
         IN  ResumeSteps(r.panel, r.objs, [P EXCEPT ![i] = NoStep], Tail(done))

\* the slots of the continuations a pass of updatePackets invokes, in the
\* order of the packets
CompletedInOrder(A) ==
    LET moved == [n \in DOMAIN A.packets |-> AdvancePacket(A.packets[n])]
        done == SelectSeq(moved, LAMBDA p : p.completed)
    IN  [n \in DOMAIN done |-> done[n].onComplete[2]]

StepInit ==
    /\ dataStore = InitStore
    /\ nfObj = InitNFs(FirstHost)
    /\ sessions = <<>>
    /\ procs = [i \in Slots |-> NoStep]
    /\ packetAnimator = NewAnimator
    /\ logOut = <<>>
    /\ returned = NoReturn
    /\ incidents = 0
    /\ started = 0
    /\ pduPanel = NoPanel

\* togglePDUMode(): the Connection Management button
togglePDUMode ==
    /\ incidents < MaxResets
    /\ \E sid \in PduSessionIds :
           LET toggled == [pduPanel EXCEPT !.pduSessionMode = ~@]
           IN  pduPanel' = IF toggled.pduSessionMode
                           THEN preparePDUSession(toggled, dataStore, nfObj, sid)
                           ELSE toggled
    /\ incidents' = incidents + 1
    /\ logOut' = <<>>
    /\ returned' = NoReturn
    /\ UNCHANGED <<dataStore, nfObj, sessions, procs, packetAnimator, started>>

\* a click on Reset in the panel
ClickReset ==
    /\ pduPanel.pduSessionMode
    /\ incidents < MaxResets
    /\ \E sid \in PduSessionIds :
           pduPanel' = resetPDUSteps(pduPanel, dataStore, nfObj, sid)
    /\ incidents' = incidents + 1
    /\ logOut' = <<>>
    /\ returned' = NoReturn
    /\ UNCHANGED <<dataStore, nfObj, sessions, procs, packetAnimator, started>>

\* executePDUStep(stepNum) up to its await: the button is marked active; step
\* 8 allocates the address if the session data hold none; the token of the
\* step is submitted, or the delay of an internal step started
executePDUStep(stepNum) ==
    /\ pduPanel.pduSessionMode
    /\ pduPanel.pduSessionData # Null
    /\ stepNum \notin pduPanel.disabled
    /\ stepNum \notin pduPanel.completed
    /\ \E i \in Slots : procs[i] = NoStep
    /\ FrameSettled(packetAnimator)
    /\ LET i == CHOOSE j \in Slots : procs[j] = NoStep /\ \A m \in Slots : procs[m] = NoStep => j <= m
           data == pduPanel.pduSessionData[1]
           a == IF stepNum = 8 /\ data.assignedIP = Null
                THEN allocateUEIP(nfObj, data.upf, data.ueId)
                ELSE [ueIp |-> data.assignedIP, objs |-> nfObj]
           tid == IF stepNum = 8 /\ data.tunnelId = NullNum
                  THEN CHOOSE t \in TunnelIds : TRUE ELSE data.tunnelId
           marked == [pduPanel EXCEPT !.active = @ \cup {stepNum},
                                      !.pduSessionData[1].assignedIP = a.ueIp,
                                      !.pduSessionData[1].tunnelId = tid]
       IN  IF stepNum \in InternalSteps
           THEN /\ procs' = [procs EXCEPT ![i] = [step |-> stepNum, phase |-> "delay"]]
                /\ pduPanel' = marked
                /\ nfObj' = a.objs
                /\ UNCHANGED packetAnimator
           ELSE LET tok == StepToken(data, stepNum)
                    r == sendPacket(packetAnimator, dataStore, a.objs, tok.src, tok.tgt, <<"step", i>>)
                    P1 == [procs EXCEPT ![i] = [step |-> stepNum, phase |-> "flight"]]
                    resumed == ResumeSteps(marked, a.objs, P1,
                                           IF <<"step", i>> \in r.fired THEN <<i>> ELSE <<>>)
                IN  /\ packetAnimator' = r.A
                    /\ procs' = resumed.procs
                    /\ pduPanel' = resumed.panel
                    /\ nfObj' = resumed.objs
    /\ logOut' = <<>>
    /\ returned' = NoReturn
    /\ UNCHANGED <<dataStore, sessions, incidents, started>>

\* the animation frame fires: the tokens advance, and the calls whose tokens
\* have arrived run to their end
StepFrame ==
    /\ packetAnimator.tracked
    /\ LET A0 == [packetAnimator EXCEPT !.tracked = FALSE]
           r == animate(A0)
           done == IF A0.isRunning THEN CompletedInOrder(A0) ELSE <<>>
           resumed == ResumeSteps(pduPanel, nfObj, procs, done)
       IN  /\ packetAnimator' = r.A
           /\ procs' = resumed.procs
           /\ pduPanel' = resumed.panel
           /\ nfObj' = resumed.objs
    /\ logOut' = <<>>
    /\ returned' = NoReturn
    /\ UNCHANGED <<dataStore, sessions, incidents, started>>

\* the delay of an internal step ends
StepTimer(i) ==
    /\ procs[i].phase = "delay"
    /\ LET resumed == ResumeSteps(pduPanel, nfObj, procs, <<i>>)
       IN  /\ procs' = resumed.procs
           /\ pduPanel' = resumed.panel
           /\ nfObj' = resumed.objs
    /\ logOut' = <<>>
    /\ returned' = NoReturn
    /\ UNCHANGED <<dataStore, sessions, packetAnimator, incidents, started>>

StepNext ==
    \/ togglePDUMode
    \/ ClickReset
    \/ \E stepNum \in PDUSteps : executePDUStep(stepNum)
    \/ StepFrame
    \/ \E i \in Slots : StepTimer(i)

StepSpec == StepInit /\ [][StepNext]_vars

\* the terminal of the panel's session data is marked established and
\* CONNECTED
Finalized(objs, ueId) ==
    /\ objs[ueId].cmState = "CONNECTED"
    /\ objs[ueId].pduSessionState = STATES.ACTIVE
    /\ objs[ueId].pduSession # Null

\* a token of step 13 arrives in the pass of updatePackets the next frame runs
Step13Arrives ==
    \E n \in DOMAIN packetAnimator.packets :
        LET p == packetAnimator.packets[n]
        IN  /\ procs[p.onComplete[2]].step = 13
            /\ AdvancePacket(p).completed

\* C25: the 13 steps run in order. A reset leaves step 1 enabled, steps 2 to
\* 13 disabled and no step completed; step k+1 changes from disabled to
\* enabled only in a step after which step k is completed; whenever step k is
\* completed, steps 1 to k-1 are completed; and the terminal becomes
\* established and CONNECTED only in the frame in which a token of step 13
\* arrives.
C25_StepsInOrder ==
    [][/\ ClickReset =>
              /\ pduPanel'.disabled = PDUSteps \ {1}
              /\ pduPanel'.completed = {}
       /\ \A k \in 1..12 :
              (k + 1) \in pduPanel.disabled /\ (k + 1) \notin pduPanel'.disabled
                  => k \in pduPanel'.completed
       /\ \A k \in pduPanel'.completed : 1..(k - 1) \subseteq pduPanel'.completed
       /\ \A ueId \in UEIds :
              ~Finalized(nfObj, ueId) /\ Finalized(nfObj', ueId)
                  => StepFrame /\ Step13Arrives /\ 13 \in pduPanel'.completed]_vars

-----------------------------------------------------------------------------
(* The order of an establishment *)

\* source and target of the six tokens, as the claim lists them
TokenOrder(nfs) ==
    << <<nfs.ue, nfs.amf>>, <<nfs.amf, nfs.smf>>, <<nfs.smf, nfs.upf>>,
       <<nfs.upf, nfs.smf>>, <<nfs.smf, nfs.amf>>, <<nfs.amf, nfs.ue>> >>

\* the live tokens whose continuation belongs to the call in slot i of ueId
TokensOfCall(A, ueId, i) ==
    {n \in DOMAIN A.packets : A.packets[n].onComplete = <<ueId, i>>}

\* C26: an establishment submits its tokens in the order terminal->AMF,
\* AMF->SMF, SMF->UPF, UPF->SMF, SMF->AMF, AMF->terminal, one after the other;
\* an entry for the terminal is added to a pool only by the step that follows
\* the arrival of the SMF->UPF token and submits the UPF->SMF token (or fails
\* doing so); the terminal's config receives the session only after the sixth
\* token has arrived.
C26_EstablishmentOrder ==
    [][\A ueId \in UEIds :
        /\ \A i \in Slots :
              LET f == procs[ueId][i]
                  g == procs'[ueId][i]
                  before == IF f.kind = "establish" THEN f.step ELSE 0
              IN  g.kind = "establish" /\ (f.kind # "establish" \/ g.step # f.step) =>
                      /\ g.step = before + 1
                      /\ f.kind = "establish" => f.phase = "delay"
                      /\ \A n \in TokensOfCall(packetAnimator', ueId, i) :
                             <<packetAnimator'.packets[n].sourceId,
                               packetAnimator'.packets[n].targetId>> = TokenOrder(g.nfs[1])[g.step]
                      /\ g.phase = "flight" <=> TokensOfCall(packetAnimator', ueId, i) # {}
                      /\ g.step = 4 => g.n4 # Null /\ f.n4 = Null
        /\ (\E upfId \in NFIds : \E e \in Pool(nfObj', upfId) \ Pool(nfObj, upfId) : e.ueId = ueId) =>
              \E i \in Slots :
                  /\ procs[ueId][i].kind = "establish"
                  /\ procs[ueId][i].step = 3
                  /\ procs[ueId][i].phase = "delay"
                  /\ procs'[ueId][i].step = 4 \/ procs'[ueId][i] = NoProc
        /\ nfObj[ueId].pduSession = Null /\ nfObj'[ueId].pduSession # Null =>
              \E i \in Slots :
                  /\ procs[ueId][i].kind = "establish"
                  /\ procs[ueId][i].step = 6
                  /\ procs[ueId][i].phase = "delay"
                  /\ TokensOfCall(packetAnimator, ueId, i) = {}]_vars

\* an establishment has returned true: six tokens, an entry in the pool and
\* the session in the terminal's config
C26_SixTokensThenConfig ==
    \E ueId \in UEIds :
        /\ returned = Return("establishPDUSession", ueId, TRUE)
        /\ nfObj[ueId].pduSession # Null
        /\ \E upfId \in NFIds : \E e \in Pool(nfObj, upfId) : e.ueId = ueId
        /\ logOut = <<Log(ueId, "SUCCESS", "PDU session ACTIVE")>>

\* C27: a lifecycle sequence submits a token only at its start or when its
\* previous token has completed and the settling delay after it has elapsed;
\* the step that submits a token appends one log record, of the token's
\* source, with it; a sequence waits in flight exactly while its token is
\* live, and never has more than one live token.
C27_OneTokenPerSequence ==
    [][\A ueId \in UEIds : \A i \in Slots :
        LET f == procs[ueId][i]
            g == procs'[ueId][i]
            live == TokensOfCall(packetAnimator', ueId, i)
        IN  /\ Cardinality(live) <= 1
            /\ g.phase = "flight" <=> live # {}
            /\ g.kind # "none" /\ (f.kind = "none" \/ g.step # f.step) =>
                   /\ f.kind = "none" \/ (f.phase = "delay" /\ g.kind = f.kind)
                   /\ TokensOfCall(packetAnimator, ueId, i) = {}
                   /\ Len(logOut') = 1
                   /\ \A n \in live : logOut'[1].nodeId = packetAnimator'.packets[n].sourceId]_vars

\* the second token of a sequence is live: the first has completed and its
\* delay has elapsed
C27_SecondTokenLive ==
    \E ueId \in UEIds : \E i \in Slots :
        /\ procs[ueId][i].phase = "flight"
        /\ procs[ueId][i].step = 2
        /\ Cardinality(TokensOfCall(packetAnimator, ueId, i)) = 1
        /\ Len(logOut) = 1

-----------------------------------------------------------------------------
(* The address pool under allocations and clean-ups *)

\* pools as a gateway's config can hold them when a topology is loaded: the
\* counter unset, at the first host, past an entry, at the last host or past
\* it; no entry, one entry, an entry at the counter, two entries of one owner
PoolInputs ==
    {[gatewayIP |-> DefaultGatewayIP, assignedIPs |-> es, nextAvailableIP |-> c] :
        c \in {NullNum, FirstHost, FirstHost + 1, LastHost, LastHost + 1},
        es \in {{},
                {[ueId |-> "ue1", ip |-> HostIP(FirstHost)]},
                {[ueId |-> "ue2", ip |-> HostIP(FirstHost + 1)]},
                {[ueId |-> "ue1", ip |-> HostIP(FirstHost)],
                 [ueId |-> "ue1", ip |-> HostIP(LastHost)]}}}

\* the session of ue1 as an establishment has left it, holding 10.0.0.2
HeldSession ==
    [NewSession("ue1") EXCEPT !.state = STATES.ACTIVE, !.pduSessionId = 7,
                              !.assignedIP = HostIP(FirstHost), !.tunnelId = 1000,
                              !.upfId = "upf1"]

PoolInit ==
    /\ dataStore = InitStore
    /\ \E tun0 \in PoolInputs :
           /\ nfObj = [InitNFs(FirstHost) EXCEPT !["upf1"].tun0Interface = <<tun0>>]
           /\ \/ sessions = <<>>
              \/ /\ [ueId |-> "ue1", ip |-> HostIP(FirstHost)] \in tun0.assignedIPs
                 /\ sessions = [u \in {"ue1"} |-> HeldSession]
    /\ procs = [u \in UEIds |-> [i \in Slots |-> NoProc]]
    /\ packetAnimator = NewAnimator
    /\ logOut = <<>>
    /\ returned = NoReturn
    /\ incidents = 0
    /\ started = 0
    /\ pduPanel = NoPanel

\* allocateUEIP(upf, ue) for the gateway and a terminal
PoolAllocate(ueId) ==
    LET a == allocateUEIP(nfObj, "upf1", ueId)
    IN  /\ started < MaxPoolOps
        /\ nfObj' = a.objs
        /\ returned' = Return("allocateUEIP", ueId, a.ueIp)
        /\ logOut' = <<>>
        /\ started' = started + 1
        /\ UNCHANGED <<dataStore, sessions, procs, packetAnimator, incidents, pduPanel>>

\* lines 266-268 of establishPDUSession: the session records the address the
\* allocation returned
StoreN4Result(ueId) ==
    /\ started < MaxPoolOps
    /\ returned.op = "allocateUEIP" /\ returned.ueId = ueId
    /\ sessions' = [getSession(sessions, ueId) EXCEPT ![ueId].assignedIP = returned.value,
                                                      ![ueId].tunnelId = 1000,
                                                      ![ueId].upfId = "upf1"]
    /\ returned' = NoReturn
    /\ logOut' = <<>>
    /\ started' = started + 1
    /\ UNCHANGED <<dataStore, nfObj, procs, packetAnimator, incidents, pduPanel>>

\* cleanupSession(ueId)
PoolCleanup(ueId) ==
    LET c == cleanupSession(sessions, nfObj, dataStore, ueId)
    IN  /\ started < MaxPoolOps
        /\ sessions' = c.sessions
        /\ nfObj' = c.objs
        /\ logOut' = c.log
        /\ returned' = Return("cleanupSession", ueId, TRUE)
        /\ started' = started + 1
        /\ UNCHANGED <<dataStore, procs, packetAnimator, incidents, pduPanel>>

PoolNext ==
    \/ \E ueId \in UEIds : PoolAllocate(ueId)
    \/ \E ueId \in UEIds : StoreN4Result(ueId)
    \/ \E ueId \in UEIds : PoolCleanup(ueId)

PoolSpec == PoolInit /\ [][PoolNext]_vars

\* the next-free counter of the gateway's pool, 2 when it is unset
Counter(objs) ==
    IF objs["upf1"].tun0Interface[1].nextAvailableIP = NullNum THEN 2
    ELSE objs["upf1"].tun0Interface[1].nextAvailableIP

\* C28: an allocation on a pool with counter c returns 10.0.0.v for the least
\* v in c..14 that no entry of the mapping holds, adds the one entry (v, the
\* requester), sets the counter to v + 1 and changes nothing else; and in
\* every step of allocations and clean-ups the counter does not decrease and
\* lies within 2..15.
C28_AllocationContract ==
    [][/\ \A ueId \in UEIds : PoolAllocate(ueId) =>
              LET tun0 == nfObj["upf1"].tun0Interface[1]
                  taken == {a.ip : a \in tun0.assignedIPs}
                  free == {v \in Counter(nfObj)..14 : <<10, 0, 0, v>> \notin taken}
              IN  free # {} =>
                      \E v \in free :
                          /\ \A w \in free : v <= w
                          /\ returned'.value = <<10, 0, 0, v>>
                          /\ nfObj' = [nfObj EXCEPT !["upf1"].tun0Interface =
                                 <<[tun0 EXCEPT
                                      !.assignedIPs = @ \cup {[ueId |-> ueId, ip |-> <<10, 0, 0, v>>]},
                                      !.nextAvailableIP = v + 1]>>]
                          /\ Cardinality(Pool(nfObj', "upf1")) = Cardinality(Pool(nfObj, "upf1")) + 1
                          /\ UNCHANGED <<dataStore, sessions>>
       /\ Counter(nfObj') >= Counter(nfObj)
       /\ Counter(nfObj') \in 2..15]_vars

\* an allocation has passed over a held address: counter 3, 10.0.0.3 held by
\* ue2, and ue1 has received 10.0.0.4
C28_SkippedHeldAddress ==
    /\ returned = Return("allocateUEIP", "ue1", <<10, 0, 0, 4>>)
    /\ [ueId |-> "ue2", ip |-> <<10, 0, 0, 3>>] \in Pool(nfObj, "upf1")
    /\ Counter(nfObj) = 5

-----------------------------------------------------------------------------
(* Overlapping lifecycles of one terminal *)

OverlapInit ==
    /\ dataStore = InitStore
    /\ nfObj = InitNFs(FirstHost)
    /\ sessions = <<>>
    /\ procs = [u \in UEIds |-> [i \in Slots |-> NoProc]]
    /\ packetAnimator = NewAnimator
    /\ logOut = <<>>
    /\ returned = NoReturn
    /\ incidents = 0
    /\ started = 0
    /\ pduPanel = NoPanel

OverlapNext ==
    \/ started < MaxOverlapStarts /\ FrameSettled(packetAnimator) /\ EstablishBegin("ue1")
    \/ started < MaxOverlapStarts /\ ReleaseBegin("ue1")
    \/ \E i \in Slots : EstablishStep("ue1", i)
    \/ \E i \in Slots : EstablishComplete("ue1", i)
    \/ \E i \in Slots : ReleaseStep("ue1", i)
    \/ \E i \in Slots : ReleaseComplete("ue1", i)
    \/ TrackedFrame

OverlapSpec == OverlapInit /\ [][OverlapNext]_vars

\* C29: when cleanupSession has run for a terminal, the gateway's pool holds
\* no entry owned by that terminal; applying cleanupSession once more leaves
\* the pool's mapping and counter as they are and the session RELEASED; and
\* applying it for a terminal that owns no entry leaves the pool's mapping and
\* counter as they are and that terminal's session RELEASED.
C29_CleanupIdempotent ==
    [][\A ueId \in UEIds :
        /\ (\E i \in Slots : ReleaseComplete(ueId, i)) =>
              LET again == cleanupSession(sessions', nfObj', dataStore', ueId)
              IN  /\ \A e \in Pool(nfObj', "upf1") : e.ueId # ueId
                  /\ sessions'[ueId].state = STATES.RELEASED
                  /\ again.objs["upf1"].tun0Interface = nfObj'["upf1"].tun0Interface
                  /\ again.sessions[ueId].state = STATES.RELEASED
        /\ (\A e \in Pool(nfObj, "upf1") : e.ueId # ueId) =>
              LET none == cleanupSession(sessions, nfObj, dataStore, ueId)
              IN  /\ none.objs["upf1"].tun0Interface = nfObj["upf1"].tun0Interface
                  /\ none.sessions[ueId].state = STATES.RELEASED]_vars

-----------------------------------------------------------------------------
(* Tokens of any path length and speed under the ticks of the animator *)

\* a straight path of n waypoints
StraightPath(n) == [i \in 1..n |-> [x |-> i, y |-> 0]]

\* the packet sendPacket creates, with the speed the caller passes in the
\* options and c for its continuation
TokenOf(n, s, c) ==
    [sourceId |-> NullId, targetId |-> NullId, path |-> StraightPath(n),
     currentSegment |-> 0, segmentProgress |-> 0,
     speed |-> s, onComplete |-> c, completed |-> FALSE]

\* the live sets of up to MaxTokens tokens submitted before the first tick;
\* the continuation of the token submitted c-th is c
TokenInputs ==
    UNION {[1..m -> (2..MaxWaypoints) \X (1..MaxSpeed)] : m \in 1..MaxTokens}

\* the animator runs with the tokens in its live set and a frame requested;
\* `started` counts the ticks, procs[c] the invocations of continuation c
TokenInit ==
    /\ dataStore = InitStore
    /\ nfObj = InitNFs(FirstHost)
    /\ sessions = <<>>
    /\ \E in \in TokenInputs :
           packetAnimator =
               requestFrame([NewAnimator EXCEPT
                   !.packets = [c \in DOMAIN in |-> TokenOf(in[c][1], in[c][2], c)],
                   !.isRunning = TRUE])
    /\ procs = [c \in 1..MaxTokens |-> 0]
    /\ logOut = <<>>
    /\ returned = NoReturn
    /\ incidents = 0
    /\ started = 0
    /\ pduPanel = NoPanel

\* a frame fires: animate() runs updatePackets and requests the next frame
TokenTick ==
    /\ packetAnimator.isRunning
    /\ LET u == updatePacketsIn(TickUnit, packetAnimator)
       IN  /\ packetAnimator' = requestFrame(u.A)
           /\ procs' = [c \in DOMAIN procs |->
                            IF c \in u.fired THEN procs[c] + 1 ELSE procs[c]]
    /\ started' = started + 1
    /\ UNCHANGED <<dataStore, nfObj, sessions, logOut, returned, incidents, pduPanel>>

TokenSpec == TokenInit /\ [][TokenTick]_vars

\* the tokens of the live set A whose continuation is c
LiveTokens(A, c) == {j \in DOMAIN A.packets : A.packets[j].onComplete = c}

\* C30: a token of n waypoints and speed s that is live before tick k is
\* removed from the live set by tick k, with its continuation invoked once,
\* exactly if k*s >= n-1 (in segments), and stays live with its continuation
\* not invoked otherwise; every token live after a tick has a segment index
\* among its path's n-1 segments (0..n-2) and a progress within its segment of
\* 0.0 to 1.0.
C30_CompletesAtFinalWaypoint ==
    [][TokenTick =>
        /\ \A j \in DOMAIN packetAnimator.packets :
              LET p == packetAnimator.packets[j]
                  c == p.onComplete
                  due == started' * p.speed >= (Len(p.path) - 1) * TickUnit
              IN  /\ due => /\ LiveTokens(packetAnimator', c) = {}
                            /\ procs'[c] = procs[c] + 1
                            /\ procs'[c] = 1
                  /\ ~due => /\ LiveTokens(packetAnimator', c) # {}
                             /\ procs'[c] = procs[c]
        /\ \A j \in DOMAIN packetAnimator'.packets :
              LET p == packetAnimator'.packets[j]
              IN  /\ p.currentSegment \in 0..(Len(p.path) - 2)
                  /\ p.segmentProgress \in 0..TickUnit
      ]_vars

-----------------------------------------------------------------------------
(* The indirect rule of reachability *)

\* a link is stored between a and b, in either direction
Linked(ds, a, b) ==
    \E c \in ds.connections :
        \/ c.sourceId = a /\ c.targetId = b
        \/ c.sourceId = b /\ c.targetId = a

\* a radio unit linked to the terminal t is linked to o or shares a bus with it
ThroughRadioUnit(ds, objs, t, o) ==
    \E r \in StoredIds(ds) :
        /\ TypeOf(ds, objs, r) = "gNB"
        /\ Linked(ds, t, r)
        /\ Linked(ds, r, o) \/ CommonBuses(ds, r, o) # {}

\* C31: areNFsConnected(a, b) is true only if a and b are linked, or share a
\* bus, or exactly one of them is a terminal and a radio unit linked to that
\* terminal is linked to the other node or shares a bus with it (one level of
\* indirection); so two terminals are never connected through a radio unit,
\* and a terminal with no link to a radio unit is not connected to a node it
\* has no link or bus in common with.
C31_IndirectOnlyThroughRadioUnit ==
    \A a \in NFIds : \A b \in NFIds :
        areNFsConnected(dataStore, nfObj, a, b) =>
            \/ Linked(dataStore, a, b)
            \/ CommonBuses(dataStore, a, b) # {}
            \/ /\ TypeOf(dataStore, nfObj, a) = "UE"
               /\ TypeOf(dataStore, nfObj, b) # "UE"
               /\ ThroughRadioUnit(dataStore, nfObj, a, b)
            \/ /\ TypeOf(dataStore, nfObj, b) = "UE"
               /\ TypeOf(dataStore, nfObj, a) # "UE"
               /\ ThroughRadioUnit(dataStore, nfObj, b, a)

-----------------------------------------------------------------------------
(* A canvas with two access functions *)

\* the ways an access function stands on the canvas: in service in the
\* deployment's subnet, still starting, or in service in another subnet
AnchorObjects(ip, y) ==
    {MkNF("AMF", ip, 274, y, NullId, NoTun0),
     [MkNF("AMF", ip, 274, y, NullId, NoTun0) EXCEPT !.status = "starting"],
     MkNF("AMF", OtherSubnetIP("amf1"), 274, y, NullId, NoTun0)}

\* the deployment with a second access function amf2 added by hand before or
\* after amf1, and no link or bus attachment of an access function drawn yet
AnchorInit ==
    /\ \E amfs \in {<<"amf1", "amf2">>, <<"amf2", "amf1">>} :
           dataStore =
               [nfs |-> <<"ue1", "ue2", "gnb1">> \o amfs \o <<"smf1", "upf1">>,
                connections |-> {c \in InitStore.connections :
                                    c.sourceId # "amf1" /\ c.targetId # "amf1"},
                busConnections |-> {bc \in InitStore.busConnections : bc.nfId # "amf1"}]
    /\ \E a1 \in AnchorObjects(<<192, 168, 1, 11>>, 222) :
           \E a2 \in AnchorObjects(<<192, 168, 1, 14>>, 150) :
               nfObj = [id \in NFIds \cup {"amf2"} |->
                           IF id = "amf1" THEN a1
                           ELSE IF id = "amf2" THEN a2
                           ELSE InitNFs(FirstHost)[id]]
    /\ sessions = <<>>
    /\ procs = [u \in UEIds |-> [i \in Slots |-> NoProc]]
    /\ packetAnimator = NewAnimator
    /\ logOut = <<>>
    /\ returned = NoReturn
    /\ incidents = 0
    /\ started = 0
    /\ pduPanel = NoPanel

\* the user draws links and bus attachments and tries establishments
AnchorNext ==
    \/ \E sourceId \in StoredIds(dataStore) : \E targetId \in StoredIds(dataStore) :
           selectDestinationNF(sourceId, targetId)
    \/ \E nfId \in StoredIds(dataStore) : \E busId \in BusIds : selectBus(nfId, busId)
    \/ \E ueId \in UEIds : EstablishInvalid(ueId)

AnchorSpec == AnchorInit /\ [][AnchorNext]_vars

\* the reasons validatePrerequisites gives when an access-function clause fails
AnchorReasons ==
    {"No stable AMF found in same subnet",
     "UE is not connected to AMF (directly or via gNB)"}

\* C32: whenever some stable access function in the subnet of a registered
\* terminal is reachable from it, validatePrerequisites does not fail on an
\* access-function clause, however many other stable access functions of the
\* subnet are unreachable and in whatever order the store lists them; and an
\* establishment refused in such a state logs no access-function reason.
C32_AnyReachableAnchorPasses ==
    \A u \in UEIds :
        (\E a \in StableInSubnet(dataStore, nfObj, "AMF", u) :
             areNFsConnected(dataStore, nfObj, u, a)) =>
            /\ validatePrerequisites(dataStore, nfObj, u).error \notin AnchorReasons
            /\ \A k \in DOMAIN logOut :
                   logOut[k].nodeId = u => logOut[k].detail \notin AnchorReasons

-----------------------------------------------------------------------------
(* Two terminals establishing at once on one pool *)

\* the entries of the gateway's pool that terminal u owns
OwnedEntries(objs, u) == {e \in Pool(objs, "upf1") : e.ueId = u}

\* the pool had two free addresses or more before the first allocation: no
\* address is given back here, so those free now and those handed out add up
HadTwoFree(objs) ==
    Cardinality(FreeHosts(objs["upf1"].tun0Interface[1]))
        + Cardinality(Pool(objs, "upf1")) >= 2

-----------------------------------------------------------------------------
(* Establishments while the animator's public operations are called *)

\* packetAnimator.clearPackets(): the live set is emptied and no continuation
\* is invoked
clearPackets ==
    /\ incidents < MaxIncidents
    /\ packetAnimator' = [packetAnimator EXCEPT !.packets = <<>>]
    /\ incidents' = incidents + 1
    /\ logOut' = <<>>
    /\ returned' = NoReturn
    /\ UNCHANGED <<dataStore, nfObj, sessions, procs, started, pduPanel>>

\* packetAnimator.stopAnimation() called from outside the loop
StopAnimationCall ==
    /\ incidents < MaxIncidents
    /\ packetAnimator' = stopAnimation(packetAnimator)
    /\ incidents' = incidents + 1
    /\ logOut' = <<>>
    /\ returned' = NoReturn
    /\ UNCHANGED <<dataStore, nfObj, sessions, procs, started, pduPanel>>

CancelNext ==
    \/ \E ueId \in UEIds : EstablishStart(ueId)
    \/ \E ueId \in UEIds : \E i \in Slots : EstablishStep(ueId, i)
    \/ \E ueId \in UEIds : \E i \in Slots : EstablishComplete(ueId, i)
    \/ TrackedFrame
    \/ clearPackets
    \/ StopAnimationCall
    \/ \E nfId \in Deletable : deleteNF(nfId)

\* a requested animation frame and an armed timer fire in the end; nothing
\* obliges anyone to call the animator or to delete a node
CancelSpec ==
    /\ Init
    /\ [][CancelNext]_vars
    /\ WF_vars(TrackedFrame)
    /\ \A ueId \in UEIds : \A i \in Slots : TimerFairness(ueId, i)

\* C34: every establishment that has started (state ESTABLISHING) reaches a
\* terminal state (ACTIVE, IDLE or RELEASED) in the end, whatever calls of
\* sendPacket, clearPackets and stopAnimation and whatever node deletions
\* happen meanwhile, given that requested frames and armed timers fire.
C34_StartedSequenceTerminates ==
    \A u \in UEIds :
        (StateOf(sessions, u) = STATES.ESTABLISHING) ~>
            (StateOf(sessions, u) \in {STATES.ACTIVE, STATES.IDLE, STATES.RELEASED})

-----------------------------------------------------------------------------
(* A throw after the allocation *)

\* C35: when a step of an establishment throws after the allocation (at the
\* log call of token 4, 5 or 6), the session is forced to IDLE and the call
\* returns false; the allocation is not rolled back: no entry leaves the
\* pool's mapping, an allocation made just before the throw has left its entry
\* for the terminal in the mapping, and the next-free counter does not
\* decrease; the terminal's config is left as it was.
C35_ThrowKeepsAllocation ==
    [][\A u \in UEIds : \A i \in Slots :
        (EstablishStepThrows(u, i) /\ procs[u][i].step >= 3) =>
            LET upf == procs[u][i].nfs[1].upf
                tun0 == nfObj[upf].tun0Interface
                tun1 == nfObj'[upf].tun0Interface
            IN  /\ sessions'[u].state = STATES.IDLE
                /\ returned' = Return("establishPDUSession", u, FALSE)
                /\ nfObj'[u] = nfObj[u]
                /\ tun0 # Null =>
                      /\ tun1 # Null
                      /\ tun0[1].assignedIPs \subseteq tun1[1].assignedIPs
                      /\ tun1[1].nextAvailableIP >= tun0[1].nextAvailableIP
                      /\ (procs[u][i].step = 3 /\ FreeHosts(tun0[1]) # {}) =>
                             /\ \E e \in tun1[1].assignedIPs \ tun0[1].assignedIPs : e.ueId = u
                             /\ tun1[1].nextAvailableIP > tun0[1].nextAvailableIP
                      /\ procs[u][i].step > 3 => tun1 = tun0
      ]_vars

\* an establishment of ue1 has just failed after its allocation: the call
\* returned false, the session is IDLE with no address, the pool holds
\* 10.0.0.2 for ue1 with the counter at 3, and the config of ue1 has no session
C35_FailedAfterAllocation ==
    /\ returned = Return("establishPDUSession", "ue1", FALSE)
    /\ logOut = CatchLog("ue1")
    /\ StateOf(sessions, "ue1") = STATES.IDLE
    /\ [ueId |-> "ue1", ip |-> <<10, 0, 0, 2>>] \in Pool(nfObj, "upf1")
    /\ nfObj["upf1"].tun0Interface[1].nextAvailableIP = 3
    /\ nfObj["ue1"].pduSession = Null
    /\ nfObj["ue1"].tunInterface = Null

-----------------------------------------------------------------------------
(* Establishments started at any moment of the display refresh *)

\* a frame requested by a loop that stopped or was restarted since fires and
\* runs animate()
StaleFrame ==
    /\ packetAnimator.stale > 0
    /\ FrameFires([packetAnimator EXCEPT !.stale = @ - 1])

\* the user starts an establishment whenever they like, also between the
\* moment the loop stopped itself and the firing of the frame it had requested
LoopNext ==
    \/ \E ueId \in UEIds : started < MaxStarts /\ EstablishBegin(ueId)
    \/ \E ueId \in UEIds : \E i \in Slots : EstablishStep(ueId, i)
    \/ \E ueId \in UEIds : \E i \in Slots : EstablishComplete(ueId, i)
    \/ TrackedFrame
    \/ StaleFrame

LoopSpec == Init /\ [][LoopNext]_vars

\* C36: at most one tick loop is active at any time: while the loop runs or
\* tokens are live, at most one animation-frame callback is pending, so that
\* one display refresh runs updatePackets once; and a callback that fires
\* advances every live token by exactly its own speed or removes it.
C36_OneTickLoop ==
    [][/\ (packetAnimator'.isRunning \/ packetAnimator'.packets # <<>>) =>
              PendingFrames(packetAnimator') <= 1
       /\ (TrackedFrame \/ StaleFrame) /\ packetAnimator.isRunning =>
              \A k \in DOMAIN packetAnimator.packets :
                  LET p == packetAnimator.packets[k]
                      after == TokensOfContinuation(packetAnimator', p.onComplete)
                  IN  \A j \in after :
                          Travelled(packetAnimator'.packets[j]) = Travelled(p) + p.speed
      ]_vars

-----------------------------------------------------------------------------
(* Entries of one terminal *)

\* C37: at every reachable state each terminal owns at most one entry of the
\* gateway pool's mapping.
C37_OneEntryPerTerminal ==
    \A u \in UEIds : Cardinality(OwnedEntries(nfObj, u)) <= 1

-----------------------------------------------------------------------------
(* One run of a step between two resets *)

\* the calls of executePDUStep(k) that have not returned
RunsOfStep(P, k) == {i \in Slots : P[i] # NoStep /\ P[i].step = k}

\* C38: between two resets the logic of each Connection-Management step runs
\* at most once: while the button of step k is marked active (a run of k has
\* begun since the last reset and has not ended), no further run of k
\* begins.
C38_StepRunsOncePerReset ==
    [][\A k \in PDUSteps :
           (k \in pduPanel.active /\ RunsOfStep(procs, k) # {})
               => \A i \in RunsOfStep(procs', k) : i \in RunsOfStep(procs, k)]_vars

-----------------------------------------------------------------------------
(* The terminal's config and the SessionManager's session *)

\* C39: whenever a terminal's config marks its session as established
\* (pduSessionState ACTIVE with a tunInterface), the SessionManager holds a
\* session for that terminal that is neither IDLE nor RELEASED and carries
\* the address of the tunInterface.
C39_ConfigBackedBySession ==
    \A u \in UEIds :
        (nfObj[u].pduSessionState = STATES.ACTIVE /\ nfObj[u].tunInterface # Null) =>
            /\ u \in DOMAIN sessions
            /\ sessions[u].state \notin {STATES.IDLE, STATES.RELEASED}
            /\ sessions[u].assignedIP = nfObj[u].tunInterface[1].ipAddress

-----------------------------------------------------------------------------
(* areNFsConnected call by call: the stack of its nested calls *)

\* variant of the operator below that recurses through any stored neighbour,
\* whatever its type
ViaAnyNode(ds, objs, nfId1, nfId2, conn) ==
    LET ueId == IF TypeOf(ds, objs, nfId1) = "UE" THEN nfId1 ELSE nfId2
        otherId == IF TypeOf(ds, objs, nfId1) = "UE" THEN nfId2 ELSE nfId1
        gnbId == IF conn.sourceId = ueId THEN conn.targetId ELSE conn.sourceId
    IN  IF getNFById(ds, gnbId) # Null THEN <<gnbId, otherId>> ELSE Null

\* one pass of `for (const conn of ueConns)`: the arguments of the nested
\* call made for the link, or none when its far end is not a radio unit
ViaRadioUnit(ds, objs, nfId1, nfId2, conn) ==
    LET ueId == IF TypeOf(ds, objs, nfId1) = "UE" THEN nfId1 ELSE nfId2
        otherId == IF TypeOf(ds, objs, nfId1) = "UE" THEN nfId2 ELSE nfId1
        gnbId == IF conn.sourceId = ueId THEN conn.targetId ELSE conn.sourceId
    IN  IF TypeOf(ds, objs, gnbId) = "gNB" THEN <<gnbId, otherId>> ELSE Null

\* a call up to its loop: the direct-link test and the shared-bus test
\* return true, a pair with a terminal goes on to the loop over nfId1's
\* links, any other pair returns false
EnterCall(ds, objs, nfId1, nfId2) ==
    LET connections == getConnectionsForNF(ds, nfId1)
        hasDirectConnection ==
            \E conn \in connections : conn.sourceId = nfId2 \/ conn.targetId = nfId2
        shareBus ==
            \E bc1 \in getBusConnectionsForNF(ds, nfId1) :
                \E bc2 \in getBusConnectionsForNF(ds, nfId2) : bc1.busId = bc2.busId
        viaUE == TypeOf(ds, objs, nfId1) = "UE" \/ TypeOf(ds, objs, nfId2) = "UE"
        found == hasDirectConnection \/ shareBus
    IN  [nfId1 |-> nfId1, nfId2 |-> nfId2,
         phase |-> IF ~found /\ viaUE THEN "loop" ELSE "return",
         value |-> found,
         pending |-> IF ~found /\ viaUE THEN connections ELSE {}]

\* a topology drawn by hand: the deployment's nodes and a second radio unit,
\* any of eight links (among them the cycles gnb1, gnb2, amf1 and ue1, gnb1,
\* ue2), the deployment's bus attachments
ReachInit ==
    /\ \E links \in SUBSET {<<"ue1", "gnb1">>, <<"gnb1", "ue2">>, <<"ue1", "gnb2">>,
                             <<"ue2", "gnb2">>, <<"gnb1", "gnb2">>, <<"gnb2", "amf1">>,
                             <<"amf1", "gnb1">>, <<"ue2", "ue1">>} :
           dataStore = [nfs |-> <<"ue1", "ue2", "gnb1", "gnb2", "amf1", "smf1", "upf1">>,
                        connections |-> {[sourceId |-> l[1], targetId |-> l[2]] : l \in links},
                        busConnections |-> InitStore.busConnections]
    /\ nfObj = [id \in NFIds \cup {"gnb2"} |->
                   IF id = "gnb2" THEN MkNF("gNB", <<192, 168, 1, 24>>, 182, 420, NullId, NoTun0)
                   ELSE InitNFs(FirstHost)[id]]
    /\ sessions = <<>>
    /\ procs = <<>>
    /\ packetAnimator = NewAnimator
    /\ logOut = <<>>
    /\ returned = NoReturn
    /\ incidents = 0
    /\ started = 0
    /\ pduPanel = NoPanel

\* areNFsConnected(nfId1, nfId2) is called from outside
areNFsConnectedCall(nfId1, nfId2) ==
    /\ procs = <<>>
    /\ started < MaxCalls
    /\ procs' = <<EnterCall(dataStore, nfObj, nfId1, nfId2)>>
    /\ started' = started + 1
    /\ returned' = NoReturn
    /\ UNCHANGED <<dataStore, nfObj, sessions, packetAnimator, logOut, incidents, pduPanel>>

\* the loop of the innermost call takes its next link, in whatever order the
\* store lists them, and makes the nested call if the link leads to a radio
\* unit; with no link left the call returns false
areNFsConnectedLoop ==
    /\ procs # <<>>
    /\ procs[Len(procs)].phase = "loop"
    /\ LET n == Len(procs)
           top == procs[n]
       IN  IF top.pending = {}
           THEN procs' = [procs EXCEPT ![n].phase = "return", ![n].value = FALSE]
           ELSE \E conn \in top.pending :
                    LET args == ViaRadioUnit(dataStore, nfObj, top.nfId1, top.nfId2, conn)
                        rest == [top EXCEPT !.pending = @ \ {conn}]
                    IN  IF args = Null
                        THEN procs' = [procs EXCEPT ![n] = rest]
                        ELSE /\ n < MaxDepth
                             /\ procs' = Append([procs EXCEPT ![n] = [rest EXCEPT !.phase = "await"]],
                                                EnterCall(dataStore, nfObj, args[1], args[2]))
    /\ UNCHANGED <<dataStore, nfObj, sessions, packetAnimator, logOut, returned, incidents,
                   started, pduPanel>>

\* the innermost call returns: to the loop that made it, which returns true
\* at once on true and goes on with its next link on false, or to the caller
\* outside
areNFsConnectedReturn ==
    /\ procs # <<>>
    /\ procs[Len(procs)].phase = "return"
    /\ LET n == Len(procs)
           top == procs[n]
       IN  IF n = 1
           THEN /\ procs' = <<>>
                /\ returned' = [op |-> "areNFsConnected", ueId |-> top.nfId1,
                                other |-> top.nfId2, value |-> top.value]
           ELSE /\ procs' = [SubSeq(procs, 1, n - 1) EXCEPT
                                 ![n - 1].phase = IF top.value THEN "return" ELSE "loop",
                                 ![n - 1].value = top.value]
                /\ UNCHANGED returned
    /\ UNCHANGED <<dataStore, nfObj, sessions, packetAnimator, logOut, incidents, started,
                   pduPanel>>

ReachNext ==
    \/ \E nfId1 \in {"ue1", "ue2", "gnb1", "gnb2", "amf1"} :
           \E nfId2 \in {"ue1", "ue2", "gnb1", "gnb2", "amf1"} :
               areNFsConnectedCall(nfId1, nfId2)
    \/ areNFsConnectedLoop
    \/ areNFsConnectedReturn

\* the call runs on: it is synchronous code
ReachSpec ==
    /\ ReachInit
    /\ [][ReachNext]_vars
    /\ WF_vars(areNFsConnectedLoop)
    /\ WF_vars(areNFsConnectedReturn)

\* the argument pairs of the calls that have not returned
PairsOnStack == {<<procs[n].nfId1, procs[n].nfId2>> : n \in DOMAIN procs}

\* C40: areNFsConnected terminates on every finite topology, link cycles,
\* several radio units and several terminals included: every call returns,
\* the nesting of its calls stays below the depth at which the recursion is
\* cut, no pair of arguments is entered again while a call with that pair
\* has not returned, and the value returned is the value of the function.
C40_areNFsConnectedTerminates ==
    /\ [](Len(procs) < MaxDepth)
    /\ [](Cardinality(PairsOnStack) = Len(procs))
    /\ (procs # <<>>) ~> (procs = <<>>)
    /\ [](returned.op = "areNFsConnected" =>
              returned.value = areNFsConnected(dataStore, nfObj, returned.ueId, returned.other))

\* on a topology with the link cycle gnb1, gnb2, amf1 and each terminal
\* linked to a radio unit of its own, the calls are nested three deep
C40_NestedThroughRadioUnits ==
    /\ Len(procs) = 3
    /\ \A l \in {<<"gnb1", "gnb2">>, <<"gnb2", "amf1">>, <<"amf1", "gnb1">>,
                  <<"ue1", "gnb1">>, <<"ue2", "gnb2">>} :
           [sourceId |-> l[1], targetId |-> l[2]] \in dataStore.connections

====
